---- MODULE Spec2Model ----
(***************************************************************************)
(* A model of the MACRS turn pipeline: ConversationState, the reflection   *)
(* engine, the three strategy agents, the planner and the orchestrator's   *)
(* graph (start -> reflect -> {ask, recommend, chitchat} -> planner).      *)
(*                                                                         *)
(* Python values are encoded as follows.                                   *)
(*   Optional[T]   None is <<>>, a value v is <<v>>                        *)
(*   dict          a function whose DOMAIN is the set of keys              *)
(*   list          a sequence                                              *)
(*   float         an integer number of hundredths (0.55 is 55)            *)
(*   response      a text, the sequence of its lines                       *)
(***************************************************************************)
EXTENDS Integers, Sequences, FiniteSets, TLC

VARIABLES
    convs,          \* session -> ConversationState (the caller's object)
    turn,           \* session -> the GraphState of the turn in flight
    last_products,  \* RecommendingAgent._last_products (one per Orchestrator)
    active,         \* the sessions the caller runs turns for
    pre,            \* session -> ConversationState when the last turn began
    outcome,        \* session -> how the last turn ended
    completed,      \* session -> number of turns that completed
    budget,         \* number of turns the caller may still begin
    full_acts,      \* session -> every act ever recorded
    full_dialogue,  \* session -> every exchange ever appended
    full_corr,      \* session -> every corrective experience ever appended
    calls,          \* session -> the service calls of the last reflect
    cli,            \* the chat CLI process: "running" or "crashed"
    pl,             \* Planner.select applied to drawn inputs
    use_llm,        \* the environment's MACRS_USE_LLM: is the service enabled
    unit,           \* reflect or an agent's run applied to drawn inputs
    seen            \* session -> ids of the products its retrievals returned

vars == <<convs, turn, last_products, active, pre, outcome, completed, budget,
          full_acts, full_dialogue, full_corr, calls, cli, pl, use_llm, unit,
          seen>>

----------------------------------------------------------------------------
(* Bounds of the model *)

MaxTurns == 2
MaxOutputs == 2
MaxCapTurns == 1

(* Program constants *)

HistoryCap == 50
CorrectiveCap == 20

----------------------------------------------------------------------------
(* Python helpers *)

None == <<>>
Some(v) == <<v>>

\* A text is the sequence of its lines ("\n".join(lines)); "" is <<>>.
\* Truthiness of an Optional[str] holding a text: None and "" are falsy.
Truthy(opt) == opt # None /\ opt[1] # <<>>

EmptyDict == [k \in {} |-> ""]

\* mutant: the stored mapping is replaced by the new one
DictReplace(d, other) == other

\* dict.update(other)
DictUpdate(d, other) ==
    [k \in (DOMAIN d) \cup (DOMAIN other) |->
        IF k \in DOMAIN other THEN other[k] ELSE d[k]]

\* seq[-n:]
LastN(seq, n) ==
    IF Len(seq) <= n THEN seq ELSE SubSeq(seq, Len(seq) - n + 1, Len(seq))

SeqToSet(seq) == {seq[i] : i \in 1..Len(seq)}

Min(S) == CHOOSE x \in S : \A y \in S : x <= y

----------------------------------------------------------------------------
(* Value domains *)

Sessions == {"s1", "s2"}
Acts == {"ask", "recommend", "chitchat"}
ActsInOrder == <<"ask", "recommend", "chitchat">>
Messages == {"show me knives"}

----------------------------------------------------------------------------
(* ConversationState: src/macrs/state.py *)

FreshState(sid) ==
    [ session_id |-> sid,
      turn_id |-> 0,
      user_profile |-> EmptyDict,
      browsing_history |-> <<>>,
      negative_constraints |-> EmptyDict,
      act_history |-> <<>>,
      last_user_message |-> None,
      last_system_response |-> None,
      dialogue_history |-> <<>>,
      agent_suggestions |-> EmptyDict,
      corrective_experiences |-> <<>>,
      last_recommendation_failure_turn |-> None,
      last_recommendation_turn |-> None ]

\* mutant: at the cap the newest entry is the one dropped
record_act_drop_newest(state, act) ==
    [state EXCEPT !.act_history =
        IF Len(@) + 1 > HistoryCap THEN SubSeq(Append(@, act), 1, HistoryCap)
        ELSE Append(@, act)]

\* mutant: the act is recorded twice
record_act_twice(state, act) ==
    [state EXCEPT !.act_history = LastN(Append(Append(@, act), act), HistoryCap)]

record_act(state, act) ==
    [state EXCEPT !.act_history = LastN(Append(@, act), HistoryCap)]

DialogueEntry(user_message, system_response, act) ==
    IF act # ""
    THEN [user |-> user_message, system |-> system_response, act |-> act]
    ELSE [user |-> user_message, system |-> system_response]

\* mutant: the exchange is appended and nothing is dropped
append_dialogue_uncapped(state, user_message, system_response, act) ==
    [state EXCEPT !.dialogue_history =
        Append(@, DialogueEntry(user_message, system_response, act))]

append_dialogue(state, user_message, system_response, act) ==
    [state EXCEPT !.dialogue_history =
        LastN(Append(@, DialogueEntry(user_message, system_response, act)),
              HistoryCap)]

----------------------------------------------------------------------------
(* The Generative Reasoning Service: src/macrs/llm.py                      *)
(* generate_structured_output returns a validated object, or None (service *)
(* disabled, transport error, unparseable text, schema mismatch), or lets  *)
(* an exception escape: only RuntimeError is caught around get_llm, so any *)
(* other error raised while the client is built propagates to the caller.  *)

Raised == [kind |-> "raise"]
NoneResult == [kind |-> "none"]
Value(v) == [kind |-> "value", value |-> v]

StructuredResults(values) == {Raised, NoneResult} \cup {Value(v) : v \in values}

\* mutant: the switch is not looked at
ServiceResultsAnyway(values) == StructuredResults(values)

\* get_llm, lines 37-38: with MACRS_USE_LLM off the client is refused with a
\* RuntimeError, which generate_structured_output turns into None
ServiceResults(values) ==
    IF use_llm THEN StructuredResults(values) ELSE {NoneResult}

----------------------------------------------------------------------------
(* ReflectionEngine: src/macrs/reflection.py *)

InfoOutputs ==
    { [current_demand |-> EmptyDict, browsing_history |-> <<>>],
      [current_demand |-> [category |-> "knives"],
       browsing_history |-> <<"knives">>],
      [current_demand |-> [category |-> "pans", brand |-> "Global"],
       browsing_history |-> <<"Global", "knives", "Global">>] }

StrategyOutputs ==
    { [suggestions |-> EmptyDict, corrective_experiences |-> <<>>],
      [suggestions |-> [ask |-> <<" be brief ", "  ">>, planner |-> <<"x">>],
       corrective_experiences |-> <<"e1", "e2">>] }

FailureOutputs == {[failed |-> TRUE], [failed |-> FALSE]}

\* str.strip() on the suggestion strings of the model
Strip(s) ==
    CASE s = " be brief " -> "be brief"
      [] s = "  " -> ""
      [] OTHER -> s

normalize_suggestions(suggestions) ==
    [key \in Acts |->
        LET values == IF key \in DOMAIN suggestions THEN suggestions[key] ELSE <<>>
            stripped == [i \in 1..Len(values) |-> Strip(values[i])]
            Keep(v) == v # ""
        IN  SelectSeq(stripped, Keep)]

\* mutant: the items are appended without the membership test
merge_history_all(history, items) == history \o items

RECURSIVE merge_history(_, _)
merge_history(history, items) ==
    IF items = <<>> THEN history
    ELSE IF Head(items) \in SeqToSet(history)
         THEN merge_history(history, Tail(items))
         ELSE merge_history(Append(history, Head(items)), Tail(items))

\* reflect, lines 18-23: fold the preference inference into the state
ApplyInfo(state, info) ==
    IF info.kind # "value" THEN state
    ELSE LET v == info.value
             s1 == IF DOMAIN v.current_demand # {}
                   THEN [state EXCEPT !.user_profile = DictUpdate(@, v.current_demand)]
                   ELSE state
         IN  IF v.browsing_history # <<>>
             THEN [s1 EXCEPT !.browsing_history = merge_history(@, v.browsing_history)]
             ELSE s1

\* mutant: the failure is marked at the turn about to complete
ApplyStrategyMarkingNextTurn(state, strategy) ==
    IF strategy.kind # "value" THEN state
    ELSE LET v == strategy.value
             s1 == IF DOMAIN v.suggestions # {}
                   THEN [state EXCEPT !.agent_suggestions = normalize_suggestions(v.suggestions)]
                   ELSE state
             s2 == IF v.corrective_experiences # <<>>
                   THEN [s1 EXCEPT !.corrective_experiences =
                            LastN(@ \o v.corrective_experiences, CorrectiveCap)]
                   ELSE s1
         IN  [s2 EXCEPT !.last_recommendation_failure_turn = Some(state.turn_id + 1)]

\* reflect, lines 25-31: fold the strategy reflection into the state
ApplyStrategy(state, strategy) ==
    IF strategy.kind # "value" THEN state
    ELSE LET v == strategy.value
             s1 == IF DOMAIN v.suggestions # {}
                   THEN [state EXCEPT !.agent_suggestions = normalize_suggestions(v.suggestions)]
                   ELSE state
             s2 == IF v.corrective_experiences # <<>>
                   THEN [s1 EXCEPT !.corrective_experiences =
                            LastN(@ \o v.corrective_experiences, CorrectiveCap)]
                   ELSE s1
         IN  [s2 EXCEPT !.last_recommendation_failure_turn = Some(state.turn_id)]

\* mutant: the check of the last act is left out
DetectionCalledAfterAnyAct(state) == state.act_history # <<>>

\* should_strategy_reflect, lines 72-76: is failure detection called at all
DetectionCalled(state) ==
    /\ state.act_history # <<>>
    /\ state.act_history[Len(state.act_history)] = "recommend"

\* _detect_failure, line 88: a missing verdict counts as failed = False
Verdict(detect) ==
    IF detect.kind = "value" THEN detect.value.failed ELSE FALSE

\* should_strategy_reflect, lines 72-78
should_strategy_reflect(state, detect) ==
    DetectionCalled(state) /\ Verdict(detect)

\* ReflectionEngine.reflect, lines 11-31, when no service call raises
reflect(state, info, detect, strategy) ==
    LET strat == IF should_strategy_reflect(state, detect) THEN strategy ELSE NoneResult
    IN  ApplyStrategy(ApplyInfo(state, info), strat)

----------------------------------------------------------------------------
(* Models: src/macrs/models.py *)

ProductCandidate(id, title, score) == [id |-> id, title |-> title, score |-> score]

AgentCandidate(candidate_id, response, score, slots, products) ==
    [ candidate_id |-> candidate_id, response |-> response, score |-> score,
      slots |-> slots, products |-> products ]

AgentOutput(agent_name, act, confidence, candidates) ==
    [ agent_name |-> agent_name, act |-> act, confidence |-> confidence,
      candidates |-> candidates ]

NoOutput == AgentOutput("", "", 0, <<>>)

PlannerDecision(selected_act, selected_candidate_id, selected_response, notes) ==
    [ selected_act |-> selected_act,
      selected_candidate_id |-> selected_candidate_id,
      selected_response |-> selected_response,
      strategy_update |-> [weight_updates |-> EmptyDict, notes |-> notes] ]

NoDecision == PlannerDecision("", "", <<>>, "")

Get(dict, key) == IF key \in DOMAIN dict THEN dict[key] ELSE ""

MinOf(a, b) == IF a <= b THEN a ELSE b

\* mutant: the score of the first product
MaxScoreOfFirst(products) ==
    IF products = <<>> THEN 0 ELSE Head(products).score

RECURSIVE MaxScore(_)
MaxScore(products) ==
    IF products = <<>> THEN 0
    ELSE IF Len(products) = 1 THEN Head(products).score
    ELSE LET rest == MaxScore(Tail(products))
         IN  IF Head(products).score >= rest THEN Head(products).score ELSE rest

----------------------------------------------------------------------------
(* AskingAgent: src/macrs/agents/ask.py *)

AskLLMOutputs ==
    { [confidence |-> 70,
       candidates |-> <<AgentCandidate("c1", <<"Which category do you want?">>, 80,
                                       EmptyDict, <<>>)>>],
      [confidence |-> 50, candidates |-> <<>>] }

\* mutant: a key counts as missing only when the mapping does not hold it
AskFallbackAbsentOnly(preferences) ==
    (IF "category" \notin DOMAIN preferences
     THEN <<AgentCandidate("ask_category",
                <<"What kind of product or category are you looking for?">>, 60,
                [missing |-> "category"], <<>>)>>
     ELSE <<>>)
    \o
    (IF "price_max" \notin DOMAIN preferences
     THEN <<AgentCandidate("ask_budget", <<"Do you have a budget range in mind?">>, 55,
                [missing |-> "price_max"], <<>>)>>
     ELSE <<>>)
    \o
    (IF "brand" \notin DOMAIN preferences
     THEN <<AgentCandidate("ask_brand", <<"Any preferred brand?">>, 50,
                [missing |-> "brand"], <<>>)>>
     ELSE <<>>)

\* run, lines 25-57: preferences.get(key) is falsy for a key that is absent
\* and for a key holding None, "" or 0 (all written "" here)
AskFallbackPrompts(preferences) ==
    (IF Get(preferences, "category") = ""
     THEN <<AgentCandidate("ask_category",
                <<"What kind of product or category are you looking for?">>, 60,
                [missing |-> "category"], <<>>)>>
     ELSE <<>>)
    \o
    (IF Get(preferences, "price_max") = ""
     THEN <<AgentCandidate("ask_budget", <<"Do you have a budget range in mind?">>, 55,
                [missing |-> "price_max"], <<>>)>>
     ELSE <<>>)
    \o
    (IF Get(preferences, "brand") = ""
     THEN <<AgentCandidate("ask_brand", <<"Any preferred brand?">>, 50,
                [missing |-> "brand"], <<>>)>>
     ELSE <<>>)

AskRefine ==
    AgentCandidate("ask_refine",
        <<"Anything specific you want to prioritize (price, brand, or features)?">>,
        40, EmptyDict, <<>>)

\* AskingAgent.run, lines 14-75, when generation does not raise
AskRun(state, llm_output) ==
    IF llm_output.kind = "value"
    THEN AgentOutput("asking", "ask", llm_output.value.confidence,
                     llm_output.value.candidates)
    ELSE LET missing == AskFallbackPrompts(state.user_profile)
             prompts == IF missing = <<>> THEN <<AskRefine>> ELSE missing
         IN  AgentOutput("asking", "ask", MinOf(100, 40 + 10 * Len(prompts)), prompts)

----------------------------------------------------------------------------
(* ChitChatAgent: src/macrs/agents/chitchat.py *)

\* a schema-valid answer whose only candidate has the empty response ""
ChitchatLLMOutputs ==
    { [confidence |-> 60,
       candidates |-> <<AgentCandidate("c1", <<>>, 70, EmptyDict, <<>>)>>] }

ChitchatDefault ==
    AgentCandidate("chitchat_default",
        <<"Happy to help. If you tell me a bit more about what you like, I can narrow it down quickly.">>,
        30, EmptyDict, <<>>)

\* ChitChatAgent.run, lines 12-39, when generation does not raise
ChitchatRun(state, llm_output) ==
    IF llm_output.kind = "value"
    THEN AgentOutput("chitchat", "chitchat", llm_output.value.confidence,
                     llm_output.value.candidates)
    ELSE AgentOutput("chitchat", "chitchat", 40, <<ChitchatDefault>>)

----------------------------------------------------------------------------
(* RecommendingAgent: src/macrs/agents/recommend.py *)

\* Rows returned by product_search (scripts/retrieve.py, search_products)
Row(id, title, final_score) == [id |-> id, title |-> title, final_score |-> final_score]

RetrievalResults ==
    { <<>>,
      <<Row("p1", "Chef knife", 80), Row("p2", "Paring knife", 50)>> }

\* run, lines 58-77
RECURSIVE ToProducts(_)
ToProducts(results) ==
    IF results = <<>> THEN <<>>
    ELSE <<ProductCandidate(Head(results).id, Head(results).title,
                            Head(results).final_score)>>
         \o ToProducts(Tail(results))

RecommendLLMOutputs ==
    { [confidence |-> 90,
       candidates |->
          << AgentCandidate("", <<"Top picks for you.">>, 90, EmptyDict,
                            <<ProductCandidate("p9", "Invented", 99)>>),
             AgentCandidate("r2", <<"You could also consider these.">>, 60,
                            EmptyDict, <<>>) >>],
      [confidence |-> 20, candidates |-> <<>>] }

\* text.strip().lower() and len(text) on the messages of the model
StripLower(user_message) ==
    CASE user_message = " OK " -> "ok"
      [] user_message = "Show me knives" -> "show me knives"
      [] OTHER -> user_message

TextLen(text) ==
    CASE text = "" -> 0
      [] text \in {"ok", "no", "hm"} -> 2
      [] OTHER -> 14

LowSignalSet ==
    {"no", "nope", "not sure", "i dont know", "i don't know", "maybe", "ok",
     "okay", "yes", "sure"}

\* _is_low_signal, lines 115-131
is_low_signal(user_message) ==
    LET text == StripLower(user_message)
    IN  \/ text = ""
        \/ TextLen(text) < 3
        \/ text \in LowSignalSet

\* run, lines 50-54: the result set the turn works with
EffectiveResults(retrieved, cache, user_message) ==
    IF retrieved = <<>> /\ cache # <<>> THEN cache
    ELSE IF retrieved = <<>> /\ is_low_signal(user_message) THEN cache
    ELSE retrieved

\* run, lines 55-56: the cache after the turn
NextLastProducts(retrieved, cache, user_message) ==
    LET results == EffectiveResults(retrieved, cache, user_message)
    IN  IF results # <<>> THEN results ELSE cache

\* _format_response, lines 176-184
format_response(products) ==
    IF products = <<>>
    THEN <<"I could not find good matches yet. Want to refine by brand or price range?">>
    ELSE <<"Here are a few options you might like:">>
         \o [i \in 1..Len(products) |-> products[i].title]

RecIds == <<"rec_1", "rec_2">>

\* mutant: a candidate that came with products of its own keeps them
AttachProductsKeepingOwn(candidates, products) ==
    [idx \in 1..Len(candidates) |->
        [candidates[idx] EXCEPT
            !.candidate_id = IF @ = "" THEN RecIds[idx] ELSE @,
            !.products = IF @ = <<>> THEN products ELSE @]]

\* run, lines 80-86: ids filled in, products attached
AttachProducts(candidates, products) ==
    [idx \in 1..Len(candidates) |->
        [candidates[idx] EXCEPT
            !.candidate_id = IF @ = "" THEN RecIds[idx] ELSE @,
            !.products = products]]

\* RecommendingAgent.run, lines 58-105, given the retrieved rows and the
\* result of generation (made only when there are products)
RecommendRun(results, llm_output) ==
    LET products == ToProducts(results)
        generated == IF products = <<>> THEN NoneResult ELSE llm_output
    IN  IF generated.kind = "value" /\ generated.value.candidates # <<>>
        THEN AgentOutput("recommending", "recommend", generated.value.confidence,
                         AttachProducts(generated.value.candidates, products))
        ELSE AgentOutput("recommending", "recommend",
                         MinOf(100, 30 + 10 * Len(products)),
                         <<AgentCandidate("rec_primary", format_response(products),
                                          MaxScore(products), EmptyDict, products)>>)

----------------------------------------------------------------------------
(* Planner: src/macrs/planner.py *)

WhatKeys == {"category", "type", "product", "item"}

\* _has_sufficient_preferences, lines 99-103
has_sufficient_preferences(profile) ==
    /\ DOMAIN profile # {}
    /\ (DOMAIN profile) \cap WhatKeys # {}
    /\ Cardinality(DOMAIN profile) >= 2

\* index of the first candidate of a list with the given id, 0 when none
FirstWithId(candidates, id) ==
    LET hits == {i \in 1..Len(candidates) : candidates[i].candidate_id = id}
    IN  IF hits = {} THEN 0 ELSE Min(hits)

\* select, lines 68-77: <<output index, candidate index>> of the model's
\* choice, <<0, 0>> when no offered candidate has that id
FindSelected(outputs, id) ==
    LET hits == {o \in 1..Len(outputs) : FirstWithId(outputs[o].candidates, id) # 0}
    IN  IF hits = {} THEN <<0, 0>>
        ELSE <<Min(hits), FirstWithId(outputs[Min(hits)].candidates, id)>>

FirstWithProducts(candidates) ==
    LET hits == {i \in 1..Len(candidates) : candidates[i].products # <<>>}
    IN  IF hits = {} THEN 0 ELSE Min(hits)

\* _first_recommend_candidate, lines 105-112
first_recommend_candidate(outputs) ==
    LET hits == {o \in 1..Len(outputs) :
                    /\ outputs[o].act = "recommend"
                    /\ FirstWithProducts(outputs[o].candidates) # 0}
    IN  IF hits = {} THEN <<0, 0>>
        ELSE <<Min(hits), FirstWithProducts(outputs[Min(hits)].candidates)>>

PlannerError(message) == [kind |-> "raise", error |-> message]

PlannerLLMOutput(selected_act, selected_candidate_id) ==
    [selected_act |-> selected_act, selected_candidate_id |-> selected_candidate_id,
     notes |-> "n"]

\* mutant: the response is read from the head of the candidate list
DecisionAtHeadResponse(outputs, at, notes) ==
    PlannerDecision(outputs[at[1]].act,
                    outputs[at[1]].candidates[at[2]].candidate_id,
                    outputs[at[1]].candidates[1].response,
                    notes)

DecisionAt(outputs, at, notes) ==
    PlannerDecision(outputs[at[1]].act,
                    outputs[at[1]].candidates[at[2]].candidate_id,
                    outputs[at[1]].candidates[at[2]].response,
                    notes)

\* mutant: the override is left out
OverrideSkipped(outputs, profile, chosen) == chosen

\* mutant: the override applies whatever the preferences hold
OverrideWhateverProfile(outputs, profile, chosen) ==
    IF outputs[chosen[1]].act # "recommend"
    THEN LET fallback == first_recommend_candidate(outputs)
         IN  IF fallback # <<0, 0>> THEN fallback ELSE chosen
    ELSE chosen

\* the override of lines 81-84
Override(outputs, profile, chosen) ==
    IF has_sufficient_preferences(profile) /\ outputs[chosen[1]].act # "recommend"
    THEN LET fallback == first_recommend_candidate(outputs)
         IN  IF fallback # <<0, 0>> THEN fallback ELSE chosen
    ELSE chosen

\* mutant: an id that matches no candidate is passed through
PlannerSelectTrusting(outputs, profile, llm_output) ==
    IF outputs = <<>> THEN PlannerError("Planner received no candidates")
    ELSE IF llm_output.kind = "raise" THEN PlannerError("client error")
    ELSE IF llm_output.kind = "none"
         THEN PlannerError("Planner LLM failed to return valid output")
    ELSE LET chosen == FindSelected(outputs, llm_output.value.selected_candidate_id)
         IN  IF chosen = <<0, 0>>
             THEN [kind |-> "ok",
                   decision |-> PlannerDecision(llm_output.value.selected_act,
                                    llm_output.value.selected_candidate_id,
                                    <<"">>, llm_output.value.notes)]
             ELSE [kind |-> "ok",
                   decision |-> DecisionAt(outputs, Override(outputs, profile, chosen),
                                           llm_output.value.notes)]

\* mutant: the act of the decision is the act the model named
PlannerSelectModelAct(outputs, profile, llm_output) ==
    IF outputs = <<>> THEN PlannerError("Planner received no candidates")
    ELSE IF llm_output.kind = "raise" THEN PlannerError("client error")
    ELSE IF llm_output.kind = "none"
         THEN PlannerError("Planner LLM failed to return valid output")
    ELSE LET chosen == FindSelected(outputs, llm_output.value.selected_candidate_id)
         IN  IF chosen = <<0, 0>>
             THEN PlannerError("Planner selected unknown candidate_id")
             ELSE [kind |-> "ok",
                   decision |->
                      [DecisionAt(outputs, Override(outputs, profile, chosen),
                                  llm_output.value.notes)
                         EXCEPT !.selected_act = llm_output.value.selected_act]]

\* Planner.select, lines 12-97
PlannerSelect(outputs, profile, llm_output) ==
    IF outputs = <<>> THEN PlannerError("Planner received no candidates")
    ELSE IF llm_output.kind = "raise" THEN PlannerError("client error")
    ELSE IF llm_output.kind = "none"
         THEN PlannerError("Planner LLM failed to return valid output")
    ELSE LET chosen == FindSelected(outputs, llm_output.value.selected_candidate_id)
         IN  IF chosen = <<0, 0>>
             THEN PlannerError("Planner selected unknown candidate_id")
             ELSE [kind |-> "ok",
                   decision |-> DecisionAt(outputs, Override(outputs, profile, chosen),
                                           llm_output.value.notes)]

----------------------------------------------------------------------------
(* Orchestrator: src/macrs/orchestrator.py *)

\* The GraphState of a turn, with the bookkeeping of the graph run:
\* done is the set of agent nodes that returned, failed the node that raised,
\* retrieved what the product search of the turn came to,
\* planner_saw the agent outputs present when the planner node started.
IdleTurn ==
    [ pc |-> "idle", user_message |-> "", done |-> {}, failed |-> "",
      retrieved |-> "",
      ask_output |-> NoOutput, recommend_output |-> NoOutput,
      chitchat_output |-> NoOutput,
      planner_ran |-> FALSE, planner_saw |-> {}, planner_llm |-> "",
      planner_decision |-> NoDecision ]

\* the service calls reflection made in the turn, and how many times
\* ReflectionEngine.reflect was invoked in it
NoCalls ==
    [info |-> FALSE, detect |-> FALSE, strategy |-> FALSE, verdict |-> FALSE,
     reflects |-> 0]

PlannerIdle ==
    [ pc |-> "idle", outputs |-> <<>>, profile |-> EmptyDict,
      llm_output |-> NoneResult, result |-> PlannerError(""),
      after |-> FreshState("s1") ]

UnitIdle == [pc |-> "idle"]

InitCommon ==
    /\ turn = [s \in Sessions |-> IdleTurn]
    /\ last_products = <<>>
    /\ pre = convs
    /\ outcome = [s \in Sessions |-> "none"]
    /\ completed = [s \in Sessions |-> 0]
    /\ full_acts = [s \in Sessions |-> convs[s].act_history]
    /\ full_dialogue = [s \in Sessions |-> convs[s].dialogue_history]
    /\ full_corr = [s \in Sessions |-> convs[s].corrective_experiences]
    /\ calls = [s \in Sessions |-> NoCalls]
    /\ cli = "running"
    /\ seen = [s \in Sessions |-> {}]

\* chat.py, lines 32-33 (one session per process) and smoke.py, lines 26-27
Init ==
    /\ convs = [s \in Sessions |-> FreshState(s)]
    /\ active = {"s1"}
    /\ budget = MaxTurns
    /\ pl = PlannerIdle
    /\ unit = UnitIdle
    /\ use_llm \in BOOLEAN
    /\ InitCommon

\* mutant: every completed turn is marked as a recommendation turn
finalize_state_marking_every_turn(state, decision, user_message) ==
    LET s1 == record_act(state, decision.selected_act)
        s2 == [s1 EXCEPT !.turn_id = @ + 1,
                         !.last_user_message = Some(user_message),
                         !.last_system_response = Some(decision.selected_response)]
        s3 == append_dialogue(s2, user_message, decision.selected_response,
                              decision.selected_act)
    IN  [s3 EXCEPT !.last_recommendation_turn = Some(s3.turn_id)]

\* mutant: a recommendation is marked with the turn_id before the increment
finalize_state_marking_old_turn(state, decision, user_message) ==
    LET s1 == record_act(state, decision.selected_act)
        s2 == [s1 EXCEPT !.turn_id = @ + 1,
                         !.last_user_message = Some(user_message),
                         !.last_system_response = Some(decision.selected_response)]
        s3 == append_dialogue(s2, user_message, decision.selected_response,
                              decision.selected_act)
    IN  IF decision.selected_act = "recommend"
        THEN [s3 EXCEPT !.last_recommendation_turn = Some(state.turn_id)]
        ELSE s3

\* _finalize_state, lines 149-160
finalize_state(state, decision, user_message) ==
    LET s1 == record_act(state, decision.selected_act)
        s2 == [s1 EXCEPT !.turn_id = @ + 1,
                         !.last_user_message = Some(user_message),
                         !.last_system_response = Some(decision.selected_response)]
        s3 == append_dialogue(s2, user_message, decision.selected_response,
                              decision.selected_act)
    IN  IF decision.selected_act = "recommend"
        THEN [s3 EXCEPT !.last_recommendation_turn = Some(s3.turn_id)]
        ELSE s3

\* run_turn, lines 76-81, and the _start node, lines 64-65
StartTurn(s) ==
    /\ cli = "running"
    /\ s \in active
    /\ turn[s].pc = "idle"
    /\ budget > 0
    /\ \E user_message \in Messages :
          turn' = [turn EXCEPT ![s] = [IdleTurn EXCEPT !.pc = "reflect",
                                                       !.user_message = user_message]]
    /\ pre' = [pre EXCEPT ![s] = convs[s]]
    /\ outcome' = [outcome EXCEPT ![s] = "running"]
    /\ budget' = budget - 1
    /\ calls' = [calls EXCEPT ![s] = NoCalls]
    /\ UNCHANGED <<convs, last_products, active, completed, full_acts,
                   full_dialogue, full_corr, cli, pl, use_llm, unit, seen>>

\* what the structured call of the planner gave: the chosen id, or that it
\* returned None or raised
Answer(llm_output) ==
    CASE llm_output.kind = "raise" -> "<raise>"
      [] llm_output.kind = "none" -> "<none>"
      [] OTHER -> llm_output.value.selected_candidate_id

\* mutant: the run stops at the failed node and the call never returns
AbortTurnHanging(s, node) ==
    /\ turn' = [turn EXCEPT ![s] = [IdleTurn EXCEPT !.failed = node,
                                                    !.done = turn[s].done]]
    /\ outcome' = outcome

\* A node before the planner raised: graph.invoke raises, run_turn returns
\* nothing. The ConversationState is the caller's own object, so what the
\* nodes did to it stays done.
AbortTurn(s, node) ==
    /\ turn' = [turn EXCEPT ![s] = [IdleTurn EXCEPT !.failed = node,
                                                    !.done = turn[s].done]]
    /\ outcome' = [outcome EXCEPT ![s] = "aborted"]

\* mutant: reflection is skipped only while nothing has been said at all
NoPreviousResponseNone(state) == state.last_system_response = None

\* _reflect_before, line 70: the test of last_system_response fails
NoPreviousResponse(state) == ~Truthy(state.last_system_response)

\* _reflect_before, lines 67-74, when there is no previous response
ReflectSkip(s) ==
    /\ turn[s].pc = "reflect"
    /\ NoPreviousResponse(convs[s])
    /\ turn' = [turn EXCEPT ![s].pc = "fanout"]
    /\ UNCHANGED <<convs, last_products, active, pre, outcome, completed, budget,
                   full_acts, full_dialogue, full_corr, calls, cli, pl, use_llm,
                   unit, seen>>

DetectResults(state) ==
    IF DetectionCalled(state) THEN ServiceResults(FailureOutputs) ELSE {NoneResult}

StrategyResults(state, detect) ==
    IF should_strategy_reflect(state, detect)
    THEN ServiceResults(StrategyOutputs) ELSE {NoneResult}

\* _reflect_before, lines 67-74, with ReflectionEngine.reflect returning
ReflectOk(s) ==
    /\ turn[s].pc = "reflect"
    /\ ~NoPreviousResponse(convs[s])
    /\ \E info \in ServiceResults(InfoOutputs) \ {Raised} :
       \E detect \in DetectResults(convs[s]) \ {Raised} :
       \E strategy \in StrategyResults(convs[s], detect) \ {Raised} :
          /\ convs' = [convs EXCEPT ![s] = reflect(@, info, detect, strategy)]
          /\ calls' = [calls EXCEPT ![s] =
                [ info |-> TRUE,
                  detect |-> DetectionCalled(convs[s]),
                  strategy |-> should_strategy_reflect(convs[s], detect),
                  verdict |-> detect.kind = "value" /\ detect.value.failed,
                  reflects |-> calls[s].reflects + 1 ]]
          /\ full_corr' = [full_corr EXCEPT ![s] =
                IF should_strategy_reflect(convs[s], detect) /\ strategy.kind = "value"
                THEN @ \o strategy.value.corrective_experiences ELSE @]
    /\ turn' = [turn EXCEPT ![s].pc = "fanout"]
    /\ UNCHANGED <<last_products, active, pre, outcome, completed, budget,
                   full_acts, full_dialogue, cli, pl, use_llm, unit, seen>>

\* _reflect_before with one of reflect's service calls raising: the calls
\* are made at reflection.py lines 12-15, before anything is written
ReflectRaise(s) ==
    /\ turn[s].pc = "reflect"
    /\ ~NoPreviousResponse(convs[s])
    /\ \E info \in ServiceResults(InfoOutputs) :
       \E detect \in DetectResults(convs[s]) :
       \E strategy \in StrategyResults(convs[s], detect) :
          /\ Raised \in {info, detect, strategy}
          /\ calls' = [calls EXCEPT ![s] =
                [ info |-> TRUE,
                  detect |-> info # Raised /\ DetectionCalled(convs[s]),
                  strategy |-> info # Raised /\ detect # Raised
                               /\ should_strategy_reflect(convs[s], detect),
                  verdict |-> info # Raised /\ detect.kind = "value"
                              /\ detect.value.failed,
                  reflects |-> calls[s].reflects + 1 ]]
    /\ AbortTurn(s, "reflect")
    /\ UNCHANGED <<convs, last_products, active, pre, completed, budget,
                   full_acts, full_dialogue, full_corr, cli, pl, use_llm, unit, seen>>

UNCHANGED_ghosts ==
    UNCHANGED <<active, pre, completed, budget, full_acts, full_dialogue,
                full_corr, calls, cli, pl, use_llm, unit>>

\* mutant: the agent nodes are reachable from the start node directly
AgentPendingFromStart(s, agent) ==
    /\ turn[s].pc \in {"reflect", "fanout"}
    /\ agent \notin turn[s].done

\* _build_graph, lines 54-57: the three agent nodes follow the reflect node
AgentPending(s, agent) ==
    /\ turn[s].pc = "fanout"
    /\ agent \notin turn[s].done

\* mutant: the ask node records its act in the conversation state
AskStepRecording(s) ==
    /\ AgentPending(s, "ask")
    /\ \E llm_output \in ServiceResults(AskLLMOutputs) :
          IF llm_output = Raised
          THEN AbortTurn(s, "ask")
          ELSE /\ turn' = [turn EXCEPT ![s].ask_output = AskRun(convs[s], llm_output),
                                       ![s].done = @ \cup {"ask"}]
               /\ UNCHANGED outcome
    /\ convs' = [convs EXCEPT ![s] = record_act(@, "ask")]
    /\ UNCHANGED <<last_products, seen>>
    /\ UNCHANGED_ghosts

\* _ask_agent, lines 90-99
AskStep(s) ==
    /\ AgentPending(s, "ask")
    /\ \E llm_output \in ServiceResults(AskLLMOutputs) :
          IF llm_output = Raised
          THEN AbortTurn(s, "ask")
          ELSE /\ turn' = [turn EXCEPT ![s].ask_output = AskRun(convs[s], llm_output),
                                       ![s].done = @ \cup {"ask"}]
               /\ UNCHANGED outcome
    /\ UNCHANGED <<convs, last_products, seen>>
    /\ UNCHANGED_ghosts

\* _chitchat_agent, lines 112-121
ChitchatStep(s) ==
    /\ AgentPending(s, "chitchat")
    /\ \E llm_output \in ServiceResults(ChitchatLLMOutputs) :
          IF llm_output = Raised
          THEN AbortTurn(s, "chitchat")
          ELSE /\ turn' = [turn EXCEPT ![s].chitchat_output =
                                            ChitchatRun(convs[s], llm_output),
                                       ![s].done = @ \cup {"chitchat"}]
               /\ UNCHANGED outcome
    /\ UNCHANGED <<convs, last_products, seen>>
    /\ UNCHANGED_ghosts

\* hybrid_search, retrieve.py lines 39-40: embed_query raised
EmbeddingFailed == [kind |-> "raise", at |-> "embed_query"]

\* _retrieve_products, lines 133-174: the rows of the tool call, or a raise
\* (tool-selection call failed, no tool call, the embedding of the query
\* failed, the search failed otherwise); with the service disabled get_llm
\* raises at line 134, outside any try
RetrievalOutcomes ==
    IF use_llm
    THEN {Raised, EmbeddingFailed} \cup {Value(rows) : rows \in RetrievalResults}
    ELSE {Raised}

SearchKind(retrieved) ==
    IF retrieved = EmbeddingFailed THEN "embed_query"
    ELSE IF retrieved = Raised THEN "raise" ELSE "rows"

\* the rows _retrieve_products returns
RowsOf(retrieved) == IF retrieved.kind = "value" THEN retrieved.value ELSE <<>>

\* mutant: a failure of the embedding counts as a search without results
RetrievalRaisesUnlessEmbedding(retrieved) == retrieved = Raised

\* _retrieve_products, lines 155-174: product_search.invoke is called
\* outside any try, and product_search, search_products and hybrid_search
\* catch nothing: what the search raises, run raises
RetrievalRaises(retrieved) == retrieved.kind = "raise"

\* the recommend node raised, after the search came to `retrieved`
AbortRecommend(s, retrieved) ==
    /\ turn' = [turn EXCEPT ![s] = [IdleTurn EXCEPT
                    !.failed = "recommend",
                    !.done = turn[s].done,
                    !.retrieved = SearchKind(retrieved)]]
    /\ outcome' = [outcome EXCEPT ![s] = "aborted"]

\* _recommend_agent, lines 101-110
RecommendStep(s) ==
    /\ AgentPending(s, "recommend")
    /\ \E retrieved \in RetrievalOutcomes :
       \E llm_output \in ServiceResults(RecommendLLMOutputs) :
          IF RetrievalRaises(retrieved)
          THEN /\ AbortRecommend(s, retrieved)
               /\ UNCHANGED <<last_products, seen>>
          ELSE LET rows    == RowsOf(retrieved)
                   results == EffectiveResults(rows, last_products,
                                               turn[s].user_message)
               IN  /\ last_products' = NextLastProducts(rows, last_products,
                                                        turn[s].user_message)
                   /\ seen' = [seen EXCEPT ![s] =
                          @ \cup {rows[i].id : i \in 1..Len(rows)}]
                   /\ IF results # <<>> /\ llm_output = Raised
                      THEN AbortRecommend(s, retrieved)
                      ELSE /\ turn' = [turn EXCEPT
                                  ![s].recommend_output = RecommendRun(results, llm_output),
                                  ![s].done = @ \cup {"recommend"},
                                  ![s].retrieved = SearchKind(retrieved)]
                           /\ UNCHANGED outcome
    /\ UNCHANGED convs
    /\ UNCHANGED_ghosts

\* mutant: the planner node is triggered by any two agent nodes
JoinReadyTwoOfThree(s) == Cardinality(turn[s].done) >= 2

\* _build_graph, lines 58-60: the planner node is triggered by the three
\* agent nodes, which run in one step of the graph; it runs in the next
\* step, once that step has ended without a node raising
JoinReady(s) == turn[s].done = Acts

PlannerIds ==
    {"ask_category", "ask_brand", "c1", "rec_primary", "rec_1", "r2",
     "chitchat_default", "zz"}

PlannerLLMOutputs ==
    {PlannerLLMOutput(act, id) : act \in Acts, id \in PlannerIds}

\* _planner, lines 123-132
PlannerOutputs(s) ==
    <<turn[s].ask_output, turn[s].recommend_output, turn[s].chitchat_output>>

\* _planner, lines 123-147, with _finalize_state
PlannerStep(s) ==
    /\ turn[s].pc = "fanout"
    /\ JoinReady(s)
    /\ \E llm_output \in ServiceResults(PlannerLLMOutputs) :
          LET result == PlannerSelect(PlannerOutputs(s), convs[s].user_profile,
                                      llm_output)
          IN  IF result.kind = "raise"
              THEN /\ turn' = [turn EXCEPT ![s] =
                          [IdleTurn EXCEPT !.failed = "planner",
                                           !.planner_ran = TRUE,
                                           !.planner_saw = turn[s].done,
                                           !.planner_llm = Answer(llm_output)]]
                   /\ outcome' = [outcome EXCEPT ![s] = "aborted"]
                   /\ UNCHANGED <<convs, completed, full_acts, full_dialogue>>
              ELSE /\ convs' = [convs EXCEPT ![s] =
                          finalize_state(@, result.decision, turn[s].user_message)]
                   /\ turn' = [turn EXCEPT ![s] =
                          [IdleTurn EXCEPT !.planner_ran = TRUE,
                                           !.planner_saw = turn[s].done,
                                           !.planner_llm = Answer(llm_output),
                                           !.planner_decision = result.decision]]
                   /\ outcome' = [outcome EXCEPT ![s] = "completed"]
                   /\ completed' = [completed EXCEPT ![s] = @ + 1]
                   /\ full_acts' = [full_acts EXCEPT ![s] =
                          Append(@, result.decision.selected_act)]
                   /\ full_dialogue' = [full_dialogue EXCEPT ![s] =
                          Append(@, DialogueEntry(turn[s].user_message,
                                                  result.decision.selected_response,
                                                  result.decision.selected_act))]
    /\ UNCHANGED <<last_products, active, pre, budget, full_corr, calls, cli, pl,
                   use_llm, unit, seen>>

\* chat.py, lines 71-74: the /state command prints state.strategy_weights;
\* reading an attribute the model class does not declare raises
StateCommand(s) ==
    /\ cli = "running"
    /\ s \in active
    /\ turn[s].pc = "idle"
    /\ cli' = IF "strategy_weights" \in DOMAIN convs[s] THEN "running" ELSE "crashed"
    /\ UNCHANGED <<convs, turn, last_products, active, pre, outcome, completed,
                   budget, full_acts, full_dialogue, full_corr, calls, pl, use_llm, unit, seen>>

Next ==
    \E s \in Sessions :
        \/ StartTurn(s)
        \/ ReflectSkip(s)
        \/ ReflectOk(s)
        \/ ReflectRaise(s)
        \/ AskStep(s)
        \/ RecommendStep(s)
        \/ ChitchatStep(s)
        \/ PlannerStep(s)
        \/ StateCommand(s)

Spec == Init /\ [][Next]_vars

----------------------------------------------------------------------------
(* Planner.select as a function of its arguments: the outputs, the stored  *)
(* preferences and the answer of the reasoning service are drawn, and one  *)
(* call is made.                                                           *)

PlannerCandidateLists ==
    LET a_plain == AgentCandidate("a", <<"x">>, 50, EmptyDict, <<>>)
        a_prod  == AgentCandidate("a", <<"y">>, 60, EmptyDict,
                                  <<ProductCandidate("p1", "Chef knife", 80)>>)
        b_plain == AgentCandidate("b", <<"w">>, 40, EmptyDict, <<>>)
        b_prod  == AgentCandidate("b", <<"z">>, 70, EmptyDict,
                                  <<ProductCandidate("p2", "Paring knife", 50)>>)
    IN  { <<>>, <<a_plain>>, <<a_prod>>, <<b_plain, a_prod>>, <<a_plain, b_prod>>,
          <<b_prod, a_prod>> }

AgentNameOf(act) ==
    CASE act = "ask" -> "asking"
      [] act = "recommend" -> "recommending"
      [] OTHER -> "chitchat"

PlannerOutputPool ==
    {AgentOutput(AgentNameOf(act), act, 50, cands) :
        act \in Acts, cands \in PlannerCandidateLists}

SeqsUpTo(S, n) == UNION {[1..k -> S] : k \in 0..n}

PlannerProfiles ==
    { EmptyDict,
      [category |-> "knives"],
      [category |-> "knives", brand |-> "Global"],
      [brand |-> "Global", color |-> "red"],
      [type |-> "knife", item |-> "santoku"] }

PlannerAnswers ==
    StructuredResults({PlannerLLMOutput(act, id) :
                          act \in Acts, id \in {"a", "b", "zz"}})

InitPlanner ==
    /\ convs = [s \in Sessions |-> FreshState(s)]
    /\ active = {}
    /\ budget = 0
    /\ use_llm = TRUE
    /\ unit = UnitIdle
    /\ InitCommon
    /\ \E outputs \in SeqsUpTo(PlannerOutputPool, MaxOutputs) :
       \E profile \in PlannerProfiles :
       \E llm_output \in PlannerAnswers :
          pl = [PlannerIdle EXCEPT !.pc = "ready", !.outputs = outputs,
                                   !.profile = profile, !.llm_output = llm_output]

\* the ConversationState handed to the planner node
PlannerState == [FreshState("s1") EXCEPT !.user_profile = pl.profile]

\* _planner, lines 123-147: select, then _finalize_state on its decision
PlannerCall ==
    /\ pl.pc = "ready"
    /\ LET result == PlannerSelect(pl.outputs, pl.profile, pl.llm_output)
       IN  pl' = [pl EXCEPT !.pc = "returned",
                            !.result = result,
                            !.after = IF result.kind = "ok"
                                      THEN finalize_state(PlannerState,
                                                          result.decision,
                                                          "show me knives")
                                      ELSE PlannerState]
    /\ UNCHANGED <<convs, turn, last_products, active, pre, outcome, completed,
                   budget, full_acts, full_dialogue, full_corr, calls, cli,
                   use_llm, unit, seen>>

NextPlanner == PlannerCall

SpecPlanner == InitPlanner /\ [][NextPlanner]_vars

\* the call returned a decision
Decided == pl.pc = "returned" /\ pl.result.kind = "ok"

\* positions <<output, candidate>> of the offered candidates
Offered(outputs) ==
    UNION {{<<o, c>> : c \in 1..Len(outputs[o].candidates)} : o \in 1..Len(outputs)}

CandAt(outputs, at) == outputs[at[1]].candidates[at[2]]

\* at comes before other in output order, then candidate order
Before(at, other) ==
    at[1] < other[1] \/ (at[1] = other[1] /\ at[2] < other[2])

\* the position the model's answer resolves to: the first offered candidate
\* with that id
ModelChoice(outputs, id) ==
    {at \in Offered(outputs) :
        /\ CandAt(outputs, at).candidate_id = id
        /\ \A other \in Offered(outputs) :
              CandAt(outputs, other).candidate_id = id => ~Before(other, at)}

\* the first Recommend candidate carrying at least one product
FirstRecommendWithProduct(outputs) ==
    LET with == {at \in Offered(outputs) :
                    /\ outputs[at[1]].act = "recommend"
                    /\ Len(CandAt(outputs, at).products) >= 1}
    IN  {at \in with : \A other \in with : ~Before(other, at)}

\* the preferences hold a "what" key and at least one more key
SufficientProfile(profile) ==
    \E k \in DOMAIN profile :
        /\ k \in {"category", "type", "product", "item"}
        /\ \E k2 \in DOMAIN profile : k2 # k

\* the decision is the candidate at this position
DecisionIs(decision, outputs, at) ==
    /\ decision.selected_act = outputs[at[1]].act
    /\ decision.selected_candidate_id = CandAt(outputs, at).candidate_id
    /\ decision.selected_response = CandAt(outputs, at).response

\* C2: whenever Planner.select returns a decision, its selected_candidate_id
\* is the candidate_id of a candidate of one of the given outputs.
C2_SelectedIdOffered ==
    Decided =>
        \E at \in Offered(pl.outputs) :
            CandAt(pl.outputs, at).candidate_id =
                pl.result.decision.selected_candidate_id

\* C2 witness: a decision where the sufficiency override replaced the
\* model's choice by a candidate with another id.
C2_Witness ==
    /\ Decided
    /\ pl.llm_output.kind = "value"
    /\ pl.result.decision.selected_candidate_id #
           pl.llm_output.value.selected_candidate_id

\* C3 as stated: with sufficient preferences and a Recommend candidate that
\* carries a product, every decision is the first such Recommend candidate,
\* whatever valid candidate the model chose.
C3_AlwaysFirstRecommend ==
    (Decided /\ SufficientProfile(pl.profile)
             /\ FirstRecommendWithProduct(pl.outputs) # {})
    => \A at \in FirstRecommendWithProduct(pl.outputs) :
          DecisionIs(pl.result.decision, pl.outputs, at)

\* C3 amended: with sufficient preferences and a Recommend candidate that
\* carries a product, the decision is a Recommend candidate: the model's own
\* choice when that is a candidate of a Recommend output, and otherwise the
\* first Recommend candidate carrying a product.
C3_RecommendPreferred ==
    (Decided /\ SufficientProfile(pl.profile)
             /\ FirstRecommendWithProduct(pl.outputs) # {})
    => /\ pl.result.decision.selected_act = "recommend"
       /\ \A chosen \in ModelChoice(pl.outputs,
                                    pl.llm_output.value.selected_candidate_id) :
             IF pl.outputs[chosen[1]].act = "recommend"
             THEN DecisionIs(pl.result.decision, pl.outputs, chosen)
             ELSE \A at \in FirstRecommendWithProduct(pl.outputs) :
                     DecisionIs(pl.result.decision, pl.outputs, at)

\* C3 witness: sufficient preferences, the model chose a candidate of a
\* non-Recommend output, and the decision is a Recommend candidate.
C3_Witness ==
    /\ Decided
    /\ SufficientProfile(pl.profile)
    /\ FirstRecommendWithProduct(pl.outputs) # {}
    /\ \E chosen \in ModelChoice(pl.outputs,
                                 pl.llm_output.value.selected_candidate_id) :
          pl.outputs[chosen[1]].act # "recommend"
    /\ pl.result.decision.selected_act = "recommend"

\* C9: the selected_response of every decision is the response text of an
\* offered candidate that has the decision's candidate_id and belongs to an
\* output with the decision's act.
C9_ResponseVerbatim ==
    Decided =>
        \E at \in Offered(pl.outputs) :
            DecisionIs(pl.result.decision, pl.outputs, at)

\* C9 witness: a decision taken by the override, whose response differs from
\* the response of the candidate the model chose.
C9_Witness ==
    /\ Decided
    /\ \E chosen \in ModelChoice(pl.outputs,
                                 pl.llm_output.value.selected_candidate_id) :
          /\ CandAt(pl.outputs, chosen).response #
                 pl.result.decision.selected_response
          /\ CandAt(pl.outputs, chosen).candidate_id =
                 pl.result.decision.selected_candidate_id

----------------------------------------------------------------------------
(* Claims about the turn pipeline *)

\* C1: when a turn aborts, every field of the session's ConversationState
\* equals its value before the turn began.
C1_AbortRestoresState ==
    \A s \in Sessions : outcome[s] = "aborted" => convs[s] = pre[s]

\* C4: the planner starts only with the outputs of all three agents, and
\* when an agent fails the planner does not run and there is no decision.
C4_JoinBarrier ==
    \A s \in Sessions :
        /\ turn[s].planner_ran => turn[s].planner_saw = {"ask", "recommend", "chitchat"}
        /\ turn[s].failed \in {"ask", "recommend", "chitchat"} =>
              /\ ~turn[s].planner_ran
              /\ outcome[s] = "aborted"
              /\ turn[s].planner_decision = NoDecision

\* C4 witness: a turn that ended because an agent raised after the two
\* other agents had returned is over without the planner having run.
C4_Witness ==
    /\ turn["s1"].failed = "chitchat"
    /\ turn["s1"].done = {"ask", "recommend"}
    /\ outcome["s1"] = "aborted"
    /\ ~turn["s1"].planner_ran

CappedLen(n) == IF n + 1 > HistoryCap THEN HistoryCap ELSE n + 1

\* C5: a completed turn adds one to turn_id and appends one entry to
\* act_history and one to dialogue_history; no other step changes them; so
\* turn_id counts the completed turns of a session started fresh.
C5_Step ==
    \A s \in Sessions :
        IF completed'[s] = completed[s] + 1
        THEN /\ convs'[s].turn_id = convs[s].turn_id + 1
             /\ Len(convs'[s].act_history) = CappedLen(Len(convs[s].act_history))
             /\ Len(convs'[s].dialogue_history) =
                    CappedLen(Len(convs[s].dialogue_history))
        ELSE /\ completed'[s] = completed[s]
             /\ convs'[s].turn_id = convs[s].turn_id
             /\ convs'[s].act_history = convs[s].act_history
             /\ convs'[s].dialogue_history = convs[s].dialogue_history

C5_OneEntryPerTurn ==
    /\ [][C5_Step]_vars
    /\ [](\A s \in Sessions : convs[s].turn_id = completed[s])

\* C5 witness: two turns of a session have completed.
C5_Witness ==
    /\ completed["s1"] = 2
    /\ convs["s1"].turn_id = 2
    /\ Len(convs["s1"].act_history) = 2

\* sum of the values of a mapping to numbers
RECURSIVE SumOver(_, _)
SumOver(f, keys) ==
    IF keys = {} THEN 0
    ELSE LET k == CHOOSE x \in keys : TRUE
         IN  f[k] + SumOver(f, keys \ {k})

\* C7: ConversationState carries strategy_weights, whose values after every
\* update of a turn are non-negative and sum to 1 (100 hundredths).
C7_StrategyWeights ==
    \A s \in Sessions :
        outcome[s] = "completed" =>
            /\ "strategy_weights" \in DOMAIN convs[s]
            /\ \A act \in DOMAIN convs[s].strategy_weights :
                  convs[s].strategy_weights[act] >= 0
            /\ SumOver(convs[s].strategy_weights,
                       DOMAIN convs[s].strategy_weights) = 100

\* ids of the candidates of the given outputs
OfferedIds(outputs) ==
    UNION {{outputs[o].candidates[c].candidate_id :
               c \in 1..Len(outputs[o].candidates)} : o \in 1..Len(outputs)}

\* the planner node ran in this step
PlannerRanNow(s) == turn[s].pc = "fanout" /\ turn'[s].planner_ran

\* the answer of the reasoning service names no offered candidate
NoValidChoice(s) ==
    \/ turn'[s].planner_llm \in {"<none>", "<raise>"}
    \/ turn'[s].planner_llm \notin OfferedIds(PlannerOutputs(s))

C8_Step ==
    \A s \in Sessions :
        (PlannerRanNow(s) /\ NoValidChoice(s)) =>
            /\ outcome'[s] = "aborted"
            /\ turn'[s].planner_decision = NoDecision
            /\ convs'[s] = convs[s]
            /\ completed'[s] = completed[s]

\* C8: Planner.select fails, returning no decision, when the outputs are
\* empty, when the reasoning service yields no choice, and when the chosen
\* id matches no offered candidate; finalize is not run in these cases.
C8_PlannerFatal ==
    /\ [][C8_Step]_vars
    /\ [](\A profile \in PlannerProfiles : \A llm_output \in PlannerAnswers :
             PlannerSelect(<<>>, profile, llm_output).kind = "raise")

\* C8 witness: the planner was given an id that no candidate of the three
\* outputs has, and the turn is over without a decision.
C8_Witness ==
    /\ turn["s1"].planner_ran
    /\ turn["s1"].planner_llm = "zz"
    /\ outcome["s1"] = "aborted"
    /\ convs["s1"].turn_id = 1

LastAct(state) ==
    IF state.act_history = <<>> THEN ""
    ELSE state.act_history[Len(state.act_history)]

StrategyFields(state) ==
    <<state.agent_suggestions, state.corrective_experiences,
      state.last_recommendation_failure_turn>>

C10_Step ==
    \A s \in Sessions :
        /\ StrategyFields(convs'[s]) # StrategyFields(convs[s]) =>
              /\ turn[s].pc = "reflect"
              /\ LastAct(convs[s]) = "recommend"
              /\ calls'[s].detect
              /\ calls'[s].verdict
        /\ (turn[s].pc = "reflect" /\ calls'[s].detect) =>
              LastAct(convs[s]) = "recommend"

\* C10: agent_suggestions, corrective_experiences and
\* last_recommendation_failure_turn change only in a reflect call where the
\* last act is 'recommend' and failure detection returned failed = true, and
\* failure detection is called only when the last act is 'recommend'.
C10_StrategyReflectionGuard == [][C10_Step]_vars

\* C10 witness: a reflect call after a 'recommend' act in which failure
\* detection returned failed = true has recorded the failure turn.
C10_Witness ==
    /\ turn["s1"].pc = "fanout"
    /\ calls["s1"].detect /\ calls["s1"].verdict /\ calls["s1"].strategy
    /\ convs["s1"].last_recommendation_failure_turn = Some(convs["s1"].turn_id)
    /\ convs["s1"].corrective_experiences # <<>>

----------------------------------------------------------------------------
(* Long sessions: the bounded sequences at their caps *)

\* the act of the i-th of n completed turns of the session drawn below
CapActAt(n, i) ==
    CASE (n - i) % 3 = 0 -> "recommend"
      [] (n - i) % 3 = 1 -> "ask"
      [] OTHER -> "chitchat"

\* the response selected with that act: the empty-result recommendation, the
\* category question, the default engagement line
CapResponseOf(act) ==
    CASE act = "recommend" -> format_response(<<>>)
      [] act = "ask" -> AskFallbackPrompts(EmptyDict)[1].response
      [] OTHER -> ChitchatDefault.response

CapExperienceAt(j) ==
    IF j = 1 THEN "e0" ELSE IF j % 2 = 0 THEN "e1" ELSE "e2"

\* a session after n completed turns, the last of them a recommendation,
\* holding k corrective experiences
LongSession(sid, n, k) ==
    [ FreshState(sid) EXCEPT
        !.turn_id = n,
        !.act_history = [i \in 1..MinOf(n, HistoryCap) |->
                            CapActAt(n, i + n - MinOf(n, HistoryCap))],
        !.dialogue_history =
            [i \in 1..MinOf(n, HistoryCap) |->
                DialogueEntry("show me knives",
                    CapResponseOf(CapActAt(n, i + n - MinOf(n, HistoryCap))),
                    CapActAt(n, i + n - MinOf(n, HistoryCap)))],
        !.last_user_message = Some("show me knives"),
        !.last_system_response = Some(CapResponseOf("recommend")),
        !.agent_suggestions = normalize_suggestions([ask |-> <<"be brief">>]),
        !.corrective_experiences = [j \in 1..k |-> CapExperienceAt(j)],
        !.last_recommendation_failure_turn = Some(n - 3),
        !.last_recommendation_turn = Some(n) ]

InitCap ==
    /\ \E n \in {HistoryCap - 1, HistoryCap} :
       \E k \in {CorrectiveCap - 2, CorrectiveCap} :
          convs = [s \in Sessions |->
                      IF s = "s1" THEN LongSession(s, n, k) ELSE FreshState(s)]
    /\ active = {"s1"}
    /\ budget = MaxCapTurns
    /\ pl = PlannerIdle
    /\ unit = UnitIdle
    /\ use_llm = TRUE
    /\ InitCommon

NextCap ==
    \E s \in Sessions :
        \/ StartTurn(s)
        \/ ReflectOk(s)
        \/ ReflectRaise(s)
        \/ AskStep(s)
        \/ RecommendStep(s)
        \/ ChitchatStep(s)
        \/ PlannerStep(s)
        \/ StateCommand(s)

SpecCap == InitCap /\ [][NextCap]_vars

\* seq holds the last cap entries of log, in the order of log
IsTailOf(seq, log, cap) ==
    /\ Len(seq) = (IF Len(log) <= cap THEN Len(log) ELSE cap)
    /\ \A i \in 1..Len(seq) : seq[i] = log[Len(log) - Len(seq) + i]

\* C6: dialogue_history and act_history never hold more than 50 entries,
\* corrective_experiences never more than 20, and each equals the most
\* recent entries appended to it, in their original order.
C6_BoundedSequences ==
    \A s \in Sessions :
        /\ Len(convs[s].dialogue_history) <= 50
        /\ Len(convs[s].act_history) <= 50
        /\ Len(convs[s].corrective_experiences) <= 20
        /\ IsTailOf(convs[s].dialogue_history, full_dialogue[s], 50)
        /\ IsTailOf(convs[s].act_history, full_acts[s], 50)
        /\ IsTailOf(convs[s].corrective_experiences, full_corr[s], 20)

\* C6 witness: all three sequences are full and have dropped entries.
C6_Witness ==
    /\ Len(full_acts["s1"]) > 50
    /\ Len(full_dialogue["s1"]) > 50
    /\ Len(full_corr["s1"]) > 20
    /\ Len(convs["s1"].act_history) = 50
    /\ Len(convs["s1"].corrective_experiences) = 20

----------------------------------------------------------------------------
(* ReflectionEngine.reflect as a function of the state and of the answers  *)
(* of the reasoning service: a state is drawn and reflect is called on it, *)
(* several times in a row.                                                 *)

MaxReflectCalls == 2

\* the decision of a completed turn that selected this act
CapDecision(act) ==
    PlannerDecision(act, "c", CapResponseOf(act), "")

\* a session after three completed turns (ask, recommend, then last)
AfterThreeTurns(last) ==
    finalize_state(
        finalize_state(
            finalize_state(FreshState("s1"), CapDecision("ask"), "show me knives"),
            CapDecision("recommend"), "show me knives"),
        CapDecision(last), "show me knives")

\* ... with preferences stored by earlier reflect calls, and with or without
\* an earlier strategy reflection (after the recommendation of turn 2)
ReflectStartStates ==
    { [ AfterThreeTurns(last) EXCEPT
          !.user_profile = profile,
          !.agent_suggestions =
              IF earlier THEN normalize_suggestions([ask |-> <<"be brief">>])
              ELSE EmptyDict,
          !.corrective_experiences =
              IF earlier THEN [j \in 1..(CorrectiveCap - 1) |-> CapExperienceAt(j)]
              ELSE <<>>,
          !.last_recommendation_failure_turn =
              IF earlier THEN Some(2) ELSE None ] :
        last \in {"ask", "recommend"},
        profile \in {EmptyDict, [category |-> "knives", color |-> "red"]},
        earlier \in BOOLEAN }
    \cup
    \* ... and sessions at and past the cap of dialogue_history, whose last
    \* failure was recorded three turns ago
    { LongSession("s1", n, CorrectiveCap - 1) : n \in {HistoryCap, HistoryCap + 5} }

\* _build_trajectory, lines 65-70: the stored exchanges from index
\* last_recommendation_failure_turn on, all of them when it is None
build_trajectory(state) ==
    LET start_index == IF state.last_recommendation_failure_turn = None THEN 0
                       ELSE IF state.last_recommendation_failure_turn[1] > 0
                            THEN state.last_recommendation_failure_turn[1] ELSE 0
        history == SubSeq(state.dialogue_history, start_index + 1,
                          Len(state.dialogue_history))
    IN  [ i \in 1..Len(history) |->
            [ user |-> history[i].user, system |-> history[i].system,
              act |-> Get(history[i], "act") ] ]

InitReflect ==
    /\ convs = [s \in Sessions |-> FreshState(s)]
    /\ active = {}
    /\ budget = 0
    /\ pl = PlannerIdle
    /\ use_llm = TRUE
    /\ InitCommon
    /\ \E state \in ReflectStartStates :
          unit = [ pc |-> "reflect", left |-> MaxReflectCalls, state |-> state,
                   before |-> state, info |-> NoneResult, detect |-> NoneResult,
                   strategy |-> NoneResult, called |-> FALSE, raised |-> FALSE,
                   mentioned |-> <<>>, trajectory |-> <<>> ]

\* _strategy_reflect, lines 53-54: the trajectory built for the strategy
\* call of this reflect call, when that call is made
TrajectoryHanded(state, info, detect) ==
    IF info # Raised /\ detect # Raised /\ should_strategy_reflect(state, detect)
    THEN build_trajectory(state)
    ELSE <<>>

\* one call of reflect: the three service calls are made first (lines 12-15,
\* in the order info, failure detection, strategy), then the state is written
ReflectCall ==
    /\ unit.pc = "reflect"
    /\ unit.left > 0
    /\ \E info \in StructuredResults(InfoOutputs) :
       \E detect \in DetectResults(unit.state) :
       \E strategy \in StrategyResults(unit.state, detect) :
          /\ info = Raised => (detect = NoneResult /\ strategy = NoneResult)
          /\ detect = Raised => strategy = NoneResult
          /\ unit' =
               IF Raised \in {info, detect, strategy}
               THEN [unit EXCEPT !.left = @ - 1, !.before = unit.state,
                                 !.info = info, !.detect = detect,
                                 !.strategy = strategy, !.called = TRUE,
                                 !.raised = TRUE,
                                 !.trajectory =
                                     TrajectoryHanded(unit.state, info, detect)]
               ELSE [unit EXCEPT !.left = @ - 1, !.before = unit.state,
                                 !.state = reflect(unit.state, info, detect, strategy),
                                 !.info = info, !.detect = detect,
                                 !.strategy = strategy, !.called = TRUE,
                                 !.raised = FALSE,
                                 !.trajectory =
                                     TrajectoryHanded(unit.state, info, detect),
                                 !.mentioned =
                                     IF info.kind = "value"
                                     THEN @ \o info.value.browsing_history ELSE @]
    /\ UNCHANGED <<convs, turn, last_products, active, pre, outcome, completed,
                   budget, full_acts, full_dialogue, full_corr, calls, cli, pl,
                   use_llm, seen>>

NextReflect == ReflectCall

SpecReflect == InitReflect /\ [][NextReflect]_vars

----------------------------------------------------------------------------
(* Claims about reflect *)

\* the last call returned
Reflected == unit.called /\ ~unit.raised

\* in the last call strategy reflection triggered and returned a result
StrategyGiven ==
    /\ Reflected
    /\ LastAct(unit.before) = "recommend"
    /\ unit.detect.kind = "value" /\ unit.detect.value.failed
    /\ unit.strategy.kind = "value"

\* the non-blank suggestions given for an act, stripped
GivenFor(suggestions, act) ==
    IF act \in DOMAIN suggestions
    THEN {Strip(suggestions[act][i]) : i \in 1..Len(suggestions[act])} \ {""}
    ELSE {}

\* every stored suggestion is one of the suggestions just given
OnlyNewSuggestions ==
    \A act \in DOMAIN unit.state.agent_suggestions :
       \A i \in 1..Len(unit.state.agent_suggestions[act]) :
          unit.state.agent_suggestions[act][i]
              \in GivenFor(unit.strategy.value.suggestions, act)

\* C11: when strategy reflection triggers and returns a result,
\* agent_suggestions holds only the new suggestions, the new corrective
\* experiences are appended with the last 20 kept, and
\* last_recommendation_failure_turn is the current turn_id.
C11_StrategyApplied ==
    StrategyGiven =>
        /\ OnlyNewSuggestions
        /\ IsTailOf(unit.state.corrective_experiences,
                    unit.before.corrective_experiences
                        \o unit.strategy.value.corrective_experiences, 20)
        /\ unit.state.last_recommendation_failure_turn = Some(unit.state.turn_id)

\* the fields written from the preference inference
ProfileFields(state) == <<state.user_profile, state.browsing_history>>

\* C12: reflect never fails on a failure of the reasoning service; a failed
\* preference inference leaves user_profile and browsing_history unchanged,
\* a failed failure detection or strategy reflection leaves the three
\* strategy fields unchanged, and neither failure suppresses the other step.
C12_ReflectNeverFails ==
    unit.called =>
        /\ ~unit.raised
        /\ unit.info.kind # "value" =>
              ProfileFields(unit.state) = ProfileFields(unit.before)
        /\ (unit.detect.kind # "value" \/ unit.strategy.kind # "value") =>
              StrategyFields(unit.state) = StrategyFields(unit.before)
        /\ (unit.info.kind # "value" /\ StrategyGiven) =>
              unit.state.last_recommendation_failure_turn = Some(unit.state.turn_id)
        /\ (unit.info.kind = "value" /\ ~StrategyGiven) =>
              \A k \in DOMAIN unit.info.value.current_demand :
                 /\ k \in DOMAIN unit.state.user_profile
                 /\ unit.state.user_profile[k] = unit.info.value.current_demand[k]

\* the demand inferred in the last call (nothing when the inference failed)
Demand == IF unit.info.kind = "value" THEN unit.info.value.current_demand ELSE EmptyDict

\* C13: after reflect with inferred demand D, user_profile[k] = D[k] for
\* every key of D and every other key keeps its value; no call of reflect
\* removes a key of user_profile.
C13_ProfileAdditive ==
    Reflected =>
        /\ DOMAIN unit.state.user_profile =
              (DOMAIN unit.before.user_profile) \cup (DOMAIN Demand)
        /\ \A k \in DOMAIN Demand : unit.state.user_profile[k] = Demand[k]
        /\ \A k \in (DOMAIN unit.before.user_profile) \ (DOMAIN Demand) :
              unit.state.user_profile[k] = unit.before.user_profile[k]

\* C13 witness: an inferred demand has overwritten one stored key and left
\* another stored key alone.
C13_Witness ==
    /\ Reflected
    /\ "category" \in DOMAIN Demand
    /\ "category" \in DOMAIN unit.before.user_profile
    /\ unit.before.user_profile["category"] # Demand["category"]
    /\ unit.state.user_profile["category"] = Demand["category"]
    /\ "color" \notin DOMAIN Demand
    /\ unit.state.user_profile["color"] = "red"

\* the positions of a log at which an item is mentioned for the first time
FirstMentions(log) ==
    {i \in 1..Len(log) : \A j \in 1..(i - 1) : log[j] # log[i]}

\* C14: starting from an empty browsing_history, it holds every mentioned
\* item exactly once, in the order of the first mentions, and no call
\* removes or moves a stored entry.
C14_BrowsingOrderedSet ==
    LET history == unit.state.browsing_history
        log == unit.mentioned
    IN  /\ \A i, j \in 1..Len(history) : history[i] = history[j] => i = j
        /\ Len(history) = Cardinality(FirstMentions(log))
        /\ \A i \in FirstMentions(log) :
              history[Cardinality({j \in FirstMentions(log) : j <= i})] = log[i]
        /\ Len(unit.before.browsing_history) <= Len(history)
        /\ \A i \in 1..Len(unit.before.browsing_history) :
              history[i] = unit.before.browsing_history[i]

\* C14 witness: an inferred list that repeats an item within itself and
\* repeats an item already stored has been merged.
C14_Witness ==
    /\ Reflected
    /\ unit.before.browsing_history = <<"knives">>
    /\ unit.info.kind = "value"
    /\ unit.info.value.browsing_history = <<"Global", "knives", "Global">>
    /\ unit.state.browsing_history = <<"knives", "Global">>

----------------------------------------------------------------------------
(* The run method of each agent as a function of its arguments: the        *)
(* stored preferences, the message, the rows retrieved, the agent's cache  *)
(* and the answer of the reasoning service are drawn, and one call is made *)

\* preferences; "" stands for a stored value that is falsy (None, "", 0)
AgentProfiles ==
    { EmptyDict,
      [category |-> "knives"],
      [brand |-> "Global"],
      [color |-> "red", price_max |-> "100"],
      [category |-> "knives", price_max |-> "100", brand |-> "Global"],
      [category |-> "knives", price_max |-> "100", brand |-> ""],
      [category |-> "", price_max |-> "", brand |-> ""] }

AgentMessages == {"show me knives", "Show me knives", " OK ", "no", "hm", ""}

\* what _last_products may hold when run is called
CachedResults == {<<>>, <<Row("p3", "Bread knife", 70)>>}

\* a search that came back with eight rows (the tool call names its own k),
\* the best final_score neither first nor last
ManyRowIds == <<"k1", "k2", "k3", "k4", "k5", "k6", "k7", "k8">>

ManyRowScores == <<40, 35, 90, 35, 20, 60, 10, 5>>

ManyRows == [i \in 1..8 |-> Row(ManyRowIds[i], "Knife", ManyRowScores[i])]

\* the rows product_search may hand to run
AgentRetrievalResults == RetrievalResults \cup {ManyRows}

UnitCall(agent, profile, user_message, retrieved, cache, llm_output) ==
    [ pc |-> "ready", agent |-> agent, profile |-> profile,
      user_message |-> user_message, retrieved |-> retrieved, cache |-> cache,
      llm_output |-> llm_output, raised |-> FALSE, output |-> NoOutput,
      cache_after |-> cache ]

InitAgents ==
    /\ convs = [s \in Sessions |-> FreshState(s)]
    /\ active = {}
    /\ budget = 0
    /\ pl = PlannerIdle
    /\ use_llm = TRUE
    /\ InitCommon
    /\ \/ \E profile \in AgentProfiles :
          \E llm_output \in StructuredResults(AskLLMOutputs) :
             unit = UnitCall("ask", profile, "show me knives", <<>>, <<>>, llm_output)
       \/ \E llm_output \in StructuredResults(ChitchatLLMOutputs) :
             unit = UnitCall("chitchat", EmptyDict, "show me knives", <<>>, <<>>,
                             llm_output)
       \/ \E user_message \in AgentMessages :
          \E retrieved \in AgentRetrievalResults :
          \E cache \in CachedResults :
          \E llm_output \in StructuredResults(RecommendLLMOutputs) :
             unit = UnitCall("recommend", EmptyDict, user_message, retrieved, cache,
                             llm_output)

\* the ConversationState handed to the agent
UnitState == [FreshState("s1") EXCEPT !.user_profile = unit.profile]

UnitReturn(output, cache_after) ==
    unit' = [unit EXCEPT !.pc = "returned", !.output = output,
                         !.cache_after = cache_after]

UnitRaise ==
    unit' = [unit EXCEPT !.pc = "returned", !.raised = TRUE]

UNCHANGED_pipeline ==
    UNCHANGED <<convs, turn, last_products, active, pre, outcome, completed,
                budget, full_acts, full_dialogue, full_corr, calls, cli, pl,
                use_llm, seen>>

AskCall ==
    /\ unit.pc = "ready" /\ unit.agent = "ask"
    /\ IF unit.llm_output = Raised THEN UnitRaise
       ELSE UnitReturn(AskRun(UnitState, unit.llm_output), unit.cache)
    /\ UNCHANGED_pipeline

ChitchatCall ==
    /\ unit.pc = "ready" /\ unit.agent = "chitchat"
    /\ IF unit.llm_output = Raised THEN UnitRaise
       ELSE UnitReturn(ChitchatRun(UnitState, unit.llm_output), unit.cache)
    /\ UNCHANGED_pipeline

RecommendCall ==
    /\ unit.pc = "ready" /\ unit.agent = "recommend"
    /\ LET results == EffectiveResults(unit.retrieved, unit.cache, unit.user_message)
       IN  IF results # <<>> /\ unit.llm_output = Raised THEN UnitRaise
           ELSE UnitReturn(RecommendRun(results, unit.llm_output),
                           NextLastProducts(unit.retrieved, unit.cache,
                                            unit.user_message))
    /\ UNCHANGED_pipeline

NextAgents == AskCall \/ ChitchatCall \/ RecommendCall

SpecAgents == InitAgents /\ [][NextAgents]_vars

----------------------------------------------------------------------------
(* Claims about the agents *)

\* the call of this agent returned an output
Returned(agent) == unit.pc = "returned" /\ unit.agent = agent /\ ~unit.raised

\* the drawn messages that are empty, under 3 characters after trimming, or
\* a filler acknowledgement
LowSignalMessages == {"", "hm", "no", " OK "}

\* the output offered when nothing was found
IsEmptyResult(output) ==
    /\ Len(output.candidates) = 1
    /\ output.candidates[1].products = <<>>
    /\ output.candidates[1].score = 0

\* C15: with an empty retrieval the cached result set is reused only for a
\* low-signal message; for every other message the output is the
\* empty-result candidate with no products and score 0, whatever the cache.
C15_CacheOnlyOnLowSignal ==
    (Returned("recommend") /\ unit.retrieved = <<>>
                           /\ unit.user_message \notin LowSignalMessages)
    => IsEmptyResult(unit.output)

\* the rows this turn works with: those retrieved, else those of the cache
TurnRows == IF unit.retrieved # <<>> THEN unit.retrieved ELSE unit.cache

\* the products are these rows, in order, with their ids and scores
SameProducts(products, rows) ==
    /\ Len(products) = Len(rows)
    /\ \A i \in 1..Len(rows) :
          /\ products[i].id = rows[i].id
          /\ products[i].score = rows[i].final_score

\* C17: every candidate of a Recommend output carries exactly the products
\* of the rows retrieved (or taken from the cache) in this turn, in the same
\* order and with the same ids and scores, whatever the generation returned.
C17_ProductsUntouched ==
    Returned("recommend") =>
        \A i \in 1..Len(unit.output.candidates) :
           SameProducts(unit.output.candidates[i].products, TurnRows)

\* C17 witness: the generation returned a candidate with a product of its
\* own, and the output's candidates carry the two retrieved products.
C17_Witness ==
    /\ Returned("recommend")
    /\ unit.llm_output.kind = "value"
    /\ unit.llm_output.value.candidates # <<>>
    /\ unit.llm_output.value.candidates[1].products # <<>>
    /\ Len(unit.output.candidates) = 2
    /\ Len(unit.retrieved) = 2
    /\ unit.output.candidates[1].products[1].id = "p1"

\* the slots asked for, in priority order, with the score of each question
AskSlots == <<"category", "price_max", "brand">>

AskScores == <<60, 55, 50>>

\* the positions of AskSlots whose key the profile does not contain
AbsentSlots(profile) == {i \in 1..3 : AskSlots[i] \notin DOMAIN profile}

\* ... does not contain, or holds with a falsy value
UnsetSlots(profile) ==
    {i \in 1..3 : AskSlots[i] \notin DOMAIN profile \/ profile[AskSlots[i]] = ""}

\* the fallback output asks exactly for the slots at these positions
AsksFor(output, missing) ==
    IF missing = {}
    THEN /\ Len(output.candidates) = 1
         /\ output.candidates[1].candidate_id = "ask_refine"
         /\ output.candidates[1].score = 40
         /\ output.confidence = 50
    ELSE /\ Len(output.candidates) = Cardinality(missing)
         /\ \A i \in missing :
               LET c == output.candidates[Cardinality({j \in missing : j <= i})]
               IN  /\ c.slots = [missing |-> AskSlots[i]]
                   /\ c.score = AskScores[i]
         /\ output.confidence = MinOf(100, 40 + 10 * Cardinality(missing))

\* the generation of the Ask call failed and the fallback output was returned
AskFellBack == Returned("ask") /\ unit.llm_output = NoneResult

\* C19 as stated: the fallback asks for the keys that user_profile does not
\* contain.
C19_AsksForAbsentKeys ==
    AskFellBack =>
        AsksFor(unit.output, AbsentSlots(unit.profile))

\* C19 amended: the fallback asks for the keys among category, price_max,
\* brand that user_profile does not contain or holds with a falsy value, one
\* candidate each in that order with scores 0.6, 0.55, 0.5; with none of
\* them it asks the one refinement question at 0.4; the confidence is
\* min(1.0, 0.4 + 0.1 * candidates); for the empty profile ask_category at
\* 0.6 comes first.
C19_AsksForUnsetKeys ==
    AskFellBack =>
        /\ AsksFor(unit.output, UnsetSlots(unit.profile))
        /\ unit.profile = EmptyDict =>
              /\ unit.output.candidates[1].candidate_id = "ask_category"
              /\ unit.output.candidates[1].score = 60

\* C19 witness: the fallback asked for the brand of a profile that holds
\* all three keys, the brand with an empty value.
C19_Witness ==
    /\ AskFellBack
    /\ DOMAIN unit.profile = {"category", "price_max", "brand"}
    /\ Len(unit.output.candidates) = 1
    /\ unit.output.candidates[1].candidate_id = "ask_brand"

\* C20: every output an agent returns holds at least one candidate, and no
\* two of its candidates have the same candidate_id.
C20_CandidatesPresent ==
    (unit.pc = "returned" /\ ~unit.raised) =>
        /\ Len(unit.output.candidates) >= 1
        /\ \A i, j \in 1..Len(unit.output.candidates) :
              unit.output.candidates[i].candidate_id =
                  unit.output.candidates[j].candidate_id => i = j

----------------------------------------------------------------------------
(* Two sessions served by one Orchestrator *)

MaxSessionTurns == 2

\* one Orchestrator (hence one RecommendingAgent) and two ConversationStates,
\* whose turns the caller may run in any order
InitSessions ==
    /\ convs = [s \in Sessions |-> FreshState(s)]
    /\ active = Sessions
    /\ budget = MaxSessionTurns
    /\ pl = PlannerIdle
    /\ use_llm = TRUE
    /\ unit = UnitIdle
    /\ InitCommon

SpecSessions == InitSessions /\ [][Next]_vars

\* ids of the products the candidates of an output carry
ProductIds(output) ==
    UNION {{output.candidates[c].products[p].id :
               p \in 1..Len(output.candidates[c].products)} :
           c \in 1..Len(output.candidates)}

\* C16: the products attached to a Recommend output of a session were
\* retrieved in that same session.
C16_CacheScopedToSession ==
    \A s \in Sessions : ProductIds(turn[s].recommend_output) \subseteq seen[s]

----------------------------------------------------------------------------
(* The pipeline with the reasoning service switched off *)

FallbackAskIds == {"ask_category", "ask_budget", "ask_brand", "ask_refine"}

\* C18: with the reasoning service disabled Ask and Chitchat return their
\* deterministic fallback outputs (Chitchat exactly one candidate with score
\* 0.3, confidence 0.4), Recommend fails at its retrieval step, and so no
\* turn gets a planner run, a decision or a completion.
C18_ServiceDisabled ==
    ~use_llm =>
        \A s \in Sessions :
            /\ "ask" \in turn[s].done =>
                  /\ turn[s].failed = "" => Len(turn[s].ask_output.candidates) >= 1
                  /\ \A i \in 1..Len(turn[s].ask_output.candidates) :
                        turn[s].ask_output.candidates[i].candidate_id
                            \in FallbackAskIds
            /\ ("chitchat" \in turn[s].done /\ turn[s].failed = "") =>
                  /\ Len(turn[s].chitchat_output.candidates) = 1
                  /\ turn[s].chitchat_output.candidates[1].candidate_id =
                        "chitchat_default"
                  /\ turn[s].chitchat_output.candidates[1].score = 30
                  /\ turn[s].chitchat_output.confidence = 40
            /\ turn[s].failed \in {"", "recommend"}
            /\ "recommend" \notin turn[s].done
            /\ ~turn[s].planner_ran
            /\ turn[s].planner_decision = NoDecision
            /\ outcome[s] # "completed"
            /\ completed[s] = 0

\* C18 witness: with the service disabled a turn has been aborted by the
\* Recommend agent after Ask and Chitchat had returned.
C18_Witness ==
    /\ ~use_llm
    /\ outcome["s1"] = "aborted"
    /\ turn["s1"].failed = "recommend"
    /\ turn["s1"].done = {"ask", "chitchat"}

\* ---------------------------------------------------------------------
\* The conversation state between reflection and finalization

\* the agent nodes have started to return and reflection is over
AfterReflect(s) == turn[s].pc = "fanout"

\* C21: from the end of the reflect step to the start of finalization no
\* step changes the ConversationState of the session: the agent nodes and
\* a failing planner leave it as reflection left it, and the only step
\* that changes it is the planner step that produced a decision, which
\* changes it by finalization alone
C21_Step ==
    \A s \in Sessions :
        (AfterReflect(s) /\ convs'[s] # convs[s]) =>
            /\ turn[s].done = Acts
            /\ turn'[s].planner_decision # NoDecision
            /\ convs'[s] = finalize_state(convs[s], turn'[s].planner_decision,
                                          turn[s].user_message)

C21_AgentsLeaveState == [][C21_Step]_vars

\* a second turn in which reflection changed the state and the three
\* agents have returned
C21_Witness ==
    \E s \in Sessions :
        /\ AfterReflect(s)
        /\ turn[s].done = Acts
        /\ convs[s].turn_id = 1
        /\ convs[s] # pre[s]

----------------------------------------------------------------------------
(* generate_structured_output on its own: the configuration, the outcome  *)
(* of constructing the client, the outcome of the call and the response   *)
(* text are drawn; one action applies the function.  A response is a      *)
(* sequence of tokens: the two braces, "v" for a member the requested     *)
(* schema accepts, "w" for a member it rejects, "t" for any other text.   *)

MaxTextLen == 4

TextChars == {"{", "}", "v", "w", "t"}

Texts == UNION {[1..n -> TextChars] : n \in 0..MaxTextLen}

\* str.find and str.rfind, with 0 for python's -1
find(text, ch) ==
    IF \E i \in 1..Len(text) : text[i] = ch
    THEN CHOOSE i \in 1..Len(text) :
            /\ text[i] = ch
            /\ \A j \in 1..(i - 1) : text[j] # ch
    ELSE 0

rfind(text, ch) ==
    IF \E i \in 1..Len(text) : text[i] = ch
    THEN CHOOSE i \in 1..Len(text) :
            /\ text[i] = ch
            /\ \A j \in (i + 1)..Len(text) : text[j] # ch
    ELSE 0

\* the text is one JSON object: braces around members and nothing else
IsJsonObject(snippet) ==
    /\ Len(snippet) >= 2
    /\ snippet[1] = "{"
    /\ snippet[Len(snippet)] = "}"
    /\ \A i \in 2..(Len(snippet) - 1) : snippet[i] \in {"v", "w"}

\* json.loads, line 95: the members of the object, or no payload when the
\* decoder raises JSONDecodeError (line 96)
json_loads(snippet) ==
    IF IsJsonObject(snippet)
    THEN Some(SubSeq(snippet, 2, Len(snippet) - 1))
    ELSE None

\* _extract_json, lines 88-97
extract_json(text) ==
    LET start == find(text, "{")
        end   == rfind(text, "}")
    IN  IF start = 0 \/ end = 0 \/ end <= start
        THEN None
        ELSE json_loads(SubSeq(text, start, end))

\* schema.model_validate, line 82: the schema has a required member and
\* rejects a member of the wrong type
Validates(members) ==
    /\ \E i \in 1..Len(members) : members[i] = "v"
    /\ \A i \in 1..Len(members) : members[i] # "w"

\* mutant: the parsed payload is returned without validation
generate_structured_output_unvalidated(enabled, construct, invoke, text) ==
    IF ~enabled THEN NoneResult
    ELSE IF construct = "error" THEN Raised
    ELSE IF invoke = "error" THEN NoneResult
    ELSE LET payload == extract_json(text)
         IN  IF payload = None THEN NoneResult
             ELSE Value(payload[1])

\* generate_structured_output, lines 50-85: get_llm raises RuntimeError
\* when the service is disabled (lines 37-38), which is caught at line 55;
\* any other exception of constructing the client is not caught
generate_structured_output(enabled, construct, invoke, text) ==
    IF ~enabled THEN NoneResult
    ELSE IF construct = "error" THEN Raised
    ELSE IF invoke = "error" THEN NoneResult
    ELSE LET payload == extract_json(text)
         IN  IF payload = None THEN NoneResult
             ELSE IF Validates(payload[1]) THEN Value(payload[1])
             ELSE NoneResult

LLMCallOf(construct, invoke, text) ==
    [ pc |-> "llm", construct |-> construct, invoke |-> invoke, text |-> text,
      result |-> NoneResult ]

InitLLM ==
    /\ convs = [s \in Sessions |-> FreshState(s)]
    /\ active = {}
    /\ budget = 0
    /\ pl = PlannerIdle
    /\ use_llm \in BOOLEAN
    /\ InitCommon
    /\ \E construct \in {"ok", "error"} :
       \E invoke \in {"ok", "error"} :
       \E text \in Texts :
          unit = LLMCallOf(construct, invoke, text)

LLMCall ==
    /\ unit.pc = "llm"
    /\ unit' = [unit EXCEPT
          !.pc = "llm_done",
          !.result = generate_structured_output(use_llm, unit.construct,
                                                unit.invoke, unit.text)]
    /\ UNCHANGED_pipeline

NextLLM == LLMCall

SpecLLM == InitLLM /\ [][NextLLM]_vars

----------------------------------------------------------------------------
(* Claims about generate_structured_output *)

\* the pieces of the text that are a JSON object
JsonObjectsIn(text) ==
    {SubSeq(text, i, j) : i \in 1..Len(text), j \in 1..Len(text)}
        \cap {piece \in Texts : IsJsonObject(piece)}

\* the members of a JSON object conform to the schema
Conforms(object) ==
    /\ \E i \in 2..(Len(object) - 1) : object[i] = "v"
    /\ \A i \in 2..(Len(object) - 1) : object[i] # "w"

\* the call was made and a response came back
Responded == use_llm /\ unit.construct = "ok" /\ unit.invoke = "ok"

\* C22: generate_structured_output returns an object that validates
\* against the schema or the failure value, never an unvalidated value;
\* it returns the failure value when the service is disabled, when the
\* call fails, when no JSON object can be parsed from the response and
\* when the JSON of the response fails validation
C22_ValidatedOrFailure ==
    unit.pc = "llm_done" =>
        /\ unit.result.kind = "value" =>
              /\ Responded
              /\ \E object \in JsonObjectsIn(unit.text) :
                    /\ Conforms(object)
                    /\ unit.result.value = SubSeq(object, 2, Len(object) - 1)
        /\ ~use_llm => unit.result = NoneResult
        /\ (use_llm /\ unit.construct = "ok" /\ unit.invoke = "error") =>
              unit.result = NoneResult
        /\ (Responded /\ JsonObjectsIn(unit.text) = {}) =>
              unit.result = NoneResult
        /\ (Responded /\ \A object \in JsonObjectsIn(unit.text) : ~Conforms(object)) =>
              unit.result = NoneResult

\* a response whose JSON object has a member the schema rejects, with
\* text around it
C22_Witness ==
    /\ unit.pc = "llm_done"
    /\ Responded
    /\ unit.text = <<"t", "{", "w", "}">>
    /\ unit.result = NoneResult

----------------------------------------------------------------------------
(* hybrid_search on its own.  The catalog has three products with fixed    *)
(* attributes; the cosine similarity of each embedding to the query and    *)
(* the text rank of each product for the query are drawn, as are the       *)
(* filters, the limits and the weights.  A text is the sequence of its     *)
(* characters, a numeric score is in hundredths, a final score in          *)
(* ten-thousandths.  Rows that the ORDER BY of a statement does not        *)
(* order come in any order, so a call has a set of possible outcomes.      *)

MaxK == 2

\* hybrid_search, lines 29-30: the values of dense_k and sparse_k
TopKs == {1, 2, 3}

\* hnsw.ef_search, the number of candidates one scan of the hnsw index
\* returns (40 unless set), scaled to the catalog
EfSearch == 2

CatalogIds == {"P1", "P2", "P3"}

\* create_products, lines 18-31 (the columns the filters read)
Catalog ==
    [ P1 |-> [ brand |-> <<"O", "x", "o">>, categories |-> <<"P", "a", "n">>,
               price |-> Some(100), currency |-> <<"U", "S", "D">> ],
      P2 |-> [ brand |-> <<"W", "m", "f">>, categories |-> <<"P", "a", "n">>,
               price |-> Some(50), currency |-> <<"U", "S", "D">> ],
      P3 |-> [ brand |-> <<"O", "x", "o">>, categories |-> <<"C", "u", "p">>,
               price |-> None, currency |-> <<"E", "U", "R">> ] ]

Scores(p1, p2, p3) == [P1 |-> p1, P2 |-> p2, P3 |-> p3]

\* 1 - cosine distance of the product's embedding to the query embedding
\* (line 68); None for a product without embedding
DenseProfiles ==
    { Scores(Some(100), Some(20), None),
      Scores(Some(100), Some(60), Some(20)),
      Scores(Some(20), Some(100), Some(60)),
      Scores(Some(60), Some(20), Some(100)),
      Scores(Some(60), Some(60), Some(60)),
      Scores(Some(100), Some(100), Some(20)),
      Scores(Some(100), None, None),
      Scores(None, None, None) }

\* ts_rank_cd of the product for the query (line 77); None for a product
\* that has no tsv or that the query does not match (lines 79-80)
SparseProfiles ==
    { Scores(Some(20), Some(100), None),
      Scores(Some(100), Some(60), Some(20)),
      Scores(Some(60), Some(60), None),
      Scores(Some(20), Some(20), Some(100)),
      Scores(None, Some(100), None),
      Scores(None, None, None) }

Filters(price_min, price_max, currency, brand, category) ==
    [ price_min |-> price_min, price_max |-> price_max, currency |-> currency,
      brand |-> brand, category |-> category ]

\* hybrid_search, lines 31-35: the filter arguments of a call
FilterSets ==
    { Filters(None, None, None, None, None),
      Filters(None, None, None, Some(<<"o", "x">>), None),
      Filters(None, None, None, Some(<<"W", "M">>), None),
      Filters(Some(0), None, None, None, None),
      Filters(None, Some(60), Some(<<"U", "S", "D">>), None, None),
      Filters(None, None, Some(<<>>), Some(<<>>), Some(<<"p", "a">>)) }

Alphas == {0, 50, 100}
Betas == {0, 50}

LowerChar(c) ==
    CASE c = "O" -> "o" [] c = "W" -> "w" [] c = "M" -> "m" [] c = "P" -> "p"
      [] c = "C" -> "c" [] OTHER -> c

Lower(text) == [i \in 1..Len(text) |-> LowerChar(text[i])]

\* text ILIKE '%value%' (lines 18, 20, 55-56), for a value without the
\* pattern characters % and _
ILike(text, value) ==
    \E i \in 1..(Len(text) - Len(value) + 1) :
        SubSeq(Lower(text), i, i + Len(value) - 1) = Lower(value)

\* _build_filters, lines 9-21: the WHERE clauses as a predicate on a row;
\* a comparison with a NULL price is not true
Satisfies(id, filters) ==
    LET product == Catalog[id]
    IN  /\ filters.price_min # None =>
              /\ product.price # None
              /\ product.price[1] >= filters.price_min[1]
        /\ filters.price_max # None =>
              /\ product.price # None
              /\ product.price[1] <= filters.price_max[1]
        /\ Truthy(filters.currency) => product.currency = filters.currency[1]
        /\ Truthy(filters.brand) => ILike(product.brand, filters.brand[1])
        /\ Truthy(filters.category) => ILike(product.categories, filters.category[1])

\* ORDER BY score DESC LIMIT n over the rows of a set: the rows kept; rows
\* of equal score at the limit are kept in any combination
TopSets(ids, score, n) ==
    { kept \in SUBSET ids :
        /\ Cardinality(kept) = MinOf(n, Cardinality(ids))
        /\ \A a \in kept : \A b \in ids \ kept : score[a][1] >= score[b][1] }

\* the dense subquery, lines 66-74, executed by scanning the table:
\* the rows with an embedding that satisfy the filters, nearest first,
\* limited to dense_k
DenseScan(call) ==
    TopSets({id \in CatalogIds : call.dense[id] # None /\ Satisfies(id, call.filters)},
            call.dense, call.dense_k)

\* the dense subquery, lines 66-74, executed by scanning the hnsw index
\* that embedding_dim_768, lines 20-26, creates: the index returns the
\* EfSearch nearest rows with an embedding, the filters are applied to
\* the rows it returns, and the result is limited to dense_k
DenseIndexScan(call) ==
    LET embedded == {id \in CatalogIds : call.dense[id] # None}
    IN  UNION { TopSets({id \in near : Satisfies(id, call.filters)},
                        call.dense, call.dense_k) :
                near \in TopSets(embedded, call.dense, EfSearch) }

\* the dense subquery under the plan the database chose
Dense(call) ==
    IF call.plan = "index" THEN DenseIndexScan(call) ELSE DenseScan(call)

\* the sparse subquery, lines 75-84
Sparse(call) ==
    TopSets({id \in CatalogIds : call.sparse[id] # None /\ Satisfies(id, call.filters)},
            call.sparse, call.sparse_k)

MaxOver(ids, score) == CHOOSE x \in {score[id][1] : id \in ids} :
                          \A id \in ids : score[id][1] <= x

MinOver(ids, score) == CHOOSE x \in {score[id][1] : id \in ids} :
                          \A id \in ids : x <= score[id][1]

\* mutant: equal scores normalise to 0
NormaliseEqualToZero(ids, score) ==
    [ id \in ids |->
        IF MaxOver(ids, score) = MinOver(ids, score) THEN 0
        ELSE ((score[id][1] - MinOver(ids, score)) * 100)
                 \div (MaxOver(ids, score) - MinOver(ids, score)) ]

\* dense_norm and sparse_norm, lines 85-100
Normalise(ids, score) ==
    [ id \in ids |->
        IF MaxOver(ids, score) = MinOver(ids, score) THEN 100
        ELSE ((score[id][1] - MinOver(ids, score)) * 100)
                 \div (MaxOver(ids, score) - MinOver(ids, score)) ]

SearchRow(id, dense_score, sparse_score, final_score) ==
    [ id |-> id, dense_score |-> dense_score, sparse_score |-> sparse_score,
      final_score |-> final_score ]

\* mutant: the dense side enters the final score as a distance
MergedWithDistance(dense_ids, sparse_ids, call, alpha) ==
    LET dense_norm  == Normalise(dense_ids, call.dense)
        sparse_norm == Normalise(sparse_ids, call.sparse)
        dense_score(id)  == IF id \in dense_ids THEN dense_norm[id] ELSE 0
        sparse_score(id) == IF id \in sparse_ids THEN sparse_norm[id] ELSE 0
    IN  { SearchRow(id, dense_score(id), sparse_score(id),
                    alpha * (100 - dense_score(id)) + call.beta * sparse_score(id)) :
            id \in dense_ids \cup sparse_ids }

\* merged and the final SELECT, lines 101-119: one row per product of
\* either side
Merged(dense_ids, sparse_ids, call, alpha) ==
    LET dense_norm  == Normalise(dense_ids, call.dense)
        sparse_norm == Normalise(sparse_ids, call.sparse)
        dense_score(id)  == IF id \in dense_ids THEN dense_norm[id] ELSE 0
        sparse_score(id) == IF id \in sparse_ids THEN sparse_norm[id] ELSE 0
    IN  { SearchRow(id, dense_score(id), sparse_score(id),
                    alpha * dense_score(id) + call.beta * sparse_score(id)) :
            id \in dense_ids \cup sparse_ids }

\* ORDER BY final_score DESC LIMIT k, lines 120-121: nothing orders rows
\* of equal final score
Ordered(rows, k) ==
    { result \in [1..MinOf(k, Cardinality(rows)) -> rows] :
        /\ \A i, j \in DOMAIN result : i < j =>
              /\ result[i] # result[j]
              /\ result[i].final_score >= result[j].final_score
        /\ \A row \in rows \ SeqToSet(result) : \A i \in DOMAIN result :
              row.final_score <= result[i].final_score }

\* the returned rows, with the rows of merged and the ids of the two
\* sides they were computed from
SearchOutcome(rows, merged, dense_ids, sparse_ids) ==
    [ rows |-> rows, merged |-> merged, dense_ids |-> dense_ids,
      sparse_ids |-> sparse_ids ]

\* hybrid_search, lines 59-146, once the query is embedded: the outcomes
\* of one execution of the statement
hybrid_search(call, alpha) ==
    UNION { LET merged == Merged(dense_ids, sparse_ids, call, alpha)
            IN  { SearchOutcome(rows, merged, dense_ids, sparse_ids) :
                    rows \in Ordered(merged, call.k) } :
            <<dense_ids, sparse_ids>> \in Dense(call) \X Sparse(call) }

NoSearchOutcome == SearchOutcome(<<>>, {}, {}, {})

SearchCallOf(embed_ok, plan, dense, sparse, filters, top_k, k, alpha, beta) ==
    [ pc |-> "search", embed_ok |-> embed_ok, plan |-> plan, dense |-> dense,
      sparse |-> sparse, filters |-> filters, dense_k |-> top_k,
      sparse_k |-> top_k, k |-> k, alpha |-> alpha, beta |-> beta,
      raised |-> FALSE, first |-> NoSearchOutcome,
      alpha2 |-> alpha, second |-> NoSearchOutcome ]

InitSearch ==
    /\ convs = [s \in Sessions |-> FreshState(s)]
    /\ active = {}
    /\ budget = 0
    /\ pl = PlannerIdle
    /\ use_llm = TRUE
    /\ InitCommon
    /\ \E embed_ok \in BOOLEAN, plan \in {"scan", "index"} :
       \E dense \in DenseProfiles, sparse \in SparseProfiles :
       \E filters \in FilterSets :
       \E top_k \in TopKs, k \in 1..MaxK :
       \E alpha \in Alphas, beta \in Betas :
          unit = SearchCallOf(embed_ok, plan, dense, sparse, filters, top_k, k,
                              alpha, beta)

\* hybrid_search, lines 39-40: embed_query raises and nothing catches it
SearchFail ==
    /\ unit.pc = "search"
    /\ ~unit.embed_ok
    /\ unit' = [unit EXCEPT !.pc = "failed", !.raised = TRUE]
    /\ UNCHANGED_pipeline

\* hybrid_search, lines 24-146
SearchCall ==
    /\ unit.pc = "search"
    /\ unit.embed_ok
    /\ \E found \in hybrid_search(unit, unit.alpha) :
          unit' = [unit EXCEPT !.pc = "searched", !.first = found]
    /\ UNCHANGED_pipeline

\* a second call on the same catalog with the same query and the same
\* arguments but for alpha, which is the same or larger
SearchAgain ==
    /\ unit.pc = "searched"
    /\ \E alpha2 \in Alphas :
          /\ alpha2 >= unit.alpha
          /\ \E found \in hybrid_search(unit, alpha2) :
                unit' = [unit EXCEPT !.pc = "compared", !.alpha2 = alpha2,
                                     !.second = found]
    /\ UNCHANGED_pipeline

NextSearch == SearchFail \/ SearchCall \/ SearchAgain

SpecSearch == InitSearch /\ [][NextSearch]_vars

----------------------------------------------------------------------------
(* Claims about hybrid_search *)

Searched == unit.pc \in {"searched", "compared"}

\* the products a side may return: those it can score that satisfy the
\* filters of the call
DenseEligible ==
    {id \in CatalogIds : unit.dense[id] # None /\ Satisfies(id, unit.filters)}

SparseEligible ==
    {id \in CatalogIds : unit.sparse[id] # None /\ Satisfies(id, unit.filters)}

\* the ids kept are the best `limit` of the eligible ones: an eligible
\* product is left out only when `limit` eligible products that score at
\* least as high were kept
TopOfEligible(kept, eligible, score, limit) ==
    /\ kept \subseteq eligible
    /\ \A id \in eligible \ kept :
          /\ Cardinality(kept) = limit
          /\ \A other \in kept : score[other][1] >= score[id][1]

\* C23: the filters are applied to the catalog before the dense top
\* dense_k and the sparse top sparse_k are taken: every returned product
\* satisfies every given filter, and on either side a product that
\* satisfies the filters is left out of the side's top-k only in favour
\* of products that satisfy them too
C23_FiltersBeforeTopK ==
    Searched =>
        /\ \A i \in 1..Len(unit.first.rows) :
              Satisfies(unit.first.rows[i].id, unit.filters)
        /\ TopOfEligible(unit.first.dense_ids, DenseEligible, unit.dense,
                         unit.dense_k)
        /\ TopOfEligible(unit.first.sparse_ids, SparseEligible, unit.sparse,
                         unit.sparse_k)

\* the min-max normalisation of a product's score over a result set, in
\* hundredths: 1.0 when all scores of the set are equal (a single result
\* included), else the value v with v * (max - min) = score - min
MinMaxOf(id, ids, score) ==
    IF \A a, b \in ids : score[a] = score[b]
    THEN 100
    ELSE LET hi == CHOOSE a \in ids : \A b \in ids : score[b][1] <= score[a][1]
             lo == CHOOSE a \in ids : \A b \in ids : score[a][1] <= score[b][1]
         IN  CHOOSE v \in 0..100 :
                v * (score[hi][1] - score[lo][1]) = (score[id][1] - score[lo][1]) * 100

\* a side's contribution for a product: 0 when the side did not return it
SideScore(id, ids, score) == IF id \in ids THEN MinMaxOf(id, ids, score) ELSE 0

\* C24: the scored products are exactly those of the dense top dense_k
\* and the sparse top sparse_k; the final score of each is
\* alpha * dense_norm + beta * sparse_norm with each side min-max
\* normalised over its own result set (equal scores and a single result
\* normalise to 1.0) and 0 for a side the product is absent from; the
\* returned rows are k of them, or all when there are fewer
C24_FusionScore ==
    Searched =>
        LET found == unit.first
            union == found.dense_ids \cup found.sparse_ids
        IN  /\ {row.id : row \in found.merged} = union
            /\ Cardinality(found.merged) = Cardinality(union)
            /\ \A row \in found.merged :
                  /\ row.dense_score = SideScore(row.id, found.dense_ids, unit.dense)
                  /\ row.sparse_score = SideScore(row.id, found.sparse_ids, unit.sparse)
                  /\ row.final_score = unit.alpha * row.dense_score
                                       + unit.beta * row.sparse_score
            /\ SeqToSet(found.rows) \subseteq found.merged
            /\ Len(found.rows) = MinOf(unit.k, Cardinality(union))

\* three dense results and a single sparse one: a product in the middle of
\* the dense side that is the only sparse result, and the best dense
\* product, which the sparse side did not return
C24_Witness ==
    /\ Searched
    /\ unit.alpha = 50 /\ unit.beta = 50
    /\ Cardinality(unit.first.dense_ids) = 3
    /\ \E i, j \in 1..Len(unit.first.rows) :
          LET mid == unit.first.rows[i]
              top == unit.first.rows[j]
          IN  /\ mid.dense_score = 50 /\ mid.sparse_score = 100
              /\ unit.first.sparse_ids = {mid.id}
              /\ mid.final_score = 7500
              /\ top.dense_score = 100 /\ top.sparse_score = 0
              /\ top.final_score = 5000

\* the order of the product ids
IdRank == [P1 |-> 1, P2 |-> 2, P3 |-> 3]

\* the sequence is sorted by descending final score, rows of equal score
\* by ascending id
SortedWithIdTieBreak(rows) ==
    \A i, j \in 1..Len(rows) : i < j =>
        \/ rows[i].final_score > rows[j].final_score
        \/ /\ rows[i].final_score = rows[j].final_score
           /\ IdRank[rows[i].id] < IdRank[rows[j].id]

TwoCallsSameArguments == unit.pc = "compared" /\ unit.alpha2 = unit.alpha

\* C25: the returned sequence is sorted by descending fusion score with
\* ties broken by product id and truncated to k, so two calls on the same
\* catalog with the same query embedding and arguments return the same
\* sequence
C25_DeterministicOrder ==
    /\ Searched =>
          /\ SortedWithIdTieBreak(unit.first.rows)
          /\ Len(unit.first.rows) <= unit.k
    /\ TwoCallsSameArguments => unit.second.rows = unit.first.rows

ReturnedIn(rows, id) == \E i \in 1..Len(rows) : rows[i].id = id

PositionIn(rows, id) == CHOOSE i \in 1..Len(rows) : rows[i].id = id

\* b is not returned ahead of a: when b is returned, a is returned before it
NotRankedBelow(rows, a, b) ==
    ReturnedIn(rows, b) =>
        /\ ReturnedIn(rows, a)
        /\ PositionIn(rows, a) < PositionIn(rows, b)

\* the scored row of a product of the union in this outcome; line 117
\* computes the final score before the rows are ordered and cut to k
ScoredRow(found, id) == CHOOSE row \in found.merged : row.id = id

\* the rank of a product: one more than the number of products that
\* score strictly higher, so products of equal score share a rank
RankOf(found, id) ==
    1 + Cardinality({other \in found.merged :
                        other.final_score > ScoredRow(found, id).final_score})

\* in this outcome a has the larger normalised dense score and the two
\* have the same normalised sparse score
DenseAhead(found, a, b) ==
    /\ {a, b} \subseteq found.dense_ids \cup found.sparse_ids
    /\ ScoredRow(found, a).dense_score > ScoredRow(found, b).dense_score
    /\ ScoredRow(found, a).sparse_score = ScoredRow(found, b).sparse_score

\* C26: for products A and B with dense_norm(A) > dense_norm(B) and equal
\* sparse_norm, and alpha' >= alpha >= 0 with beta fixed: if A is ranked
\* at or above B under alpha, A is ranked at or above B under alpha'; the
\* returned rows follow the ranks, and after a raise of alpha B is never
\* returned ahead of A
C26_MonotoneInAlpha ==
    unit.pc = "compared" =>
        /\ SeqToSet(unit.second.rows) \subseteq unit.second.merged
        /\ \A a, b \in CatalogIds :
              ( /\ DenseAhead(unit.first, a, b)
                /\ DenseAhead(unit.second, a, b)
                /\ RankOf(unit.first, a) <= RankOf(unit.first, b) )
              => /\ RankOf(unit.second, a) <= RankOf(unit.second, b)
                 /\ RankOf(unit.second, a) < RankOf(unit.second, b)
                       => NotRankedBelow(unit.second.rows, a, b)
                 /\ unit.alpha2 > unit.alpha => NotRankedBelow(unit.second.rows, a, b)

\* alpha raised from 0 to 1: A and B tied and B came first, then A comes
\* first
C26_Witness ==
    /\ unit.pc = "compared"
    /\ unit.alpha = 0 /\ unit.alpha2 = 100 /\ unit.beta = 50
    /\ \E a, b \in CatalogIds :
          /\ DenseAhead(unit.first, a, b)
          /\ DenseAhead(unit.second, a, b)
          /\ ReturnedIn(unit.first.rows, a)
          /\ NotRankedBelow(unit.first.rows, b, a)
          /\ ReturnedIn(unit.second.rows, b)
          /\ NotRankedBelow(unit.second.rows, a, b)

----------------------------------------------------------------------------
(* Claims about a failure of the embedding service *)

\* the search of the running turn ended with embed_query raising
EmbeddingFailsNow(s) ==
    /\ turn[s].pc = "fanout"
    /\ turn'[s].retrieved = "embed_query"

\* C27: when the embedding service fails, the search fails, the failure
\* goes through RecommendingAgent.run and the turn aborts: the recommend
\* node returns no output, the planner does not run, no turn is recorded,
\* and the cached last result set is neither used nor changed
C27_Step ==
    \A s \in Sessions :
        EmbeddingFailsNow(s) =>
            /\ outcome'[s] = "aborted"
            /\ turn'[s].pc = "idle"
            /\ turn'[s].failed = "recommend"
            /\ "recommend" \notin turn'[s].done
            /\ turn'[s].recommend_output = NoOutput
            /\ ~turn'[s].planner_ran
            /\ last_products' = last_products
            /\ convs' = convs
            /\ completed' = completed

C27_EmbeddingFailureFatal == [][C27_Step]_vars

\* the embedding failed in a turn that had a cached result set to fall
\* back on
C27_Witness ==
    \E s \in Sessions :
        /\ turn[s].retrieved = "embed_query"
        /\ outcome[s] = "aborted"
        /\ last_products # <<>>

----------------------------------------------------------------------------
(* Claims about finalization *)

LastOf(seq) == seq[Len(seq)]

\* the turn of the session completes in this step
CompletesNow(s) == completed'[s] = completed[s] + 1

\* C28: after a turn completes with decision d on user message m, the
\* last entry of dialogue_history is {user: m, system: d.selected_response,
\* act: d.selected_act}, the last entry of act_history is d.selected_act,
\* last_user_message is m, last_system_response is d.selected_response,
\* turn_id is one more, and last_recommendation_turn is the new turn_id
\* when d.selected_act is recommend and unchanged otherwise
C28_Step ==
    \A s \in Sessions :
        CompletesNow(s) =>
            LET d == turn'[s].planner_decision
                m == turn[s].user_message
            IN  /\ d # NoDecision
                /\ convs'[s].dialogue_history # <<>>
                /\ LastOf(convs'[s].dialogue_history)
                      = [user |-> m, system |-> d.selected_response,
                         act |-> d.selected_act]
                /\ convs'[s].act_history # <<>>
                /\ LastOf(convs'[s].act_history) = d.selected_act
                /\ convs'[s].last_user_message = Some(m)
                /\ convs'[s].last_system_response = Some(d.selected_response)
                /\ convs'[s].turn_id = convs[s].turn_id + 1
                /\ convs'[s].last_recommendation_turn =
                      IF d.selected_act = "recommend"
                      THEN Some(convs'[s].turn_id)
                      ELSE convs[s].last_recommendation_turn

C28_FinalizeBookkeeping == [][C28_Step]_vars

\* a second turn that completed with an act other than recommend, after a
\* first turn that recommended
C28_Witness ==
    \E s \in Sessions :
        /\ outcome[s] = "completed"
        /\ convs[s].turn_id = 2
        /\ LastOf(convs[s].act_history) # "recommend"
        /\ convs[s].last_recommendation_turn = Some(1)

----------------------------------------------------------------------------
(* Claims about the placement of reflection *)

\* what reflection writes
ReflectionFields(state) == <<ProfileFields(state), StrategyFields(state)>>

\* reflection makes its first service call in this step
ReflectionRunsNow(s) == calls'[s].info /\ ~calls[s].info

\* an agent node returns or raises in this step
AgentActsNow(s) ==
    \/ turn'[s].done \ turn[s].done # {}
    \/ turn'[s].failed \in Acts /\ turn[s].failed = ""

\* C29: a turn has one placement of reflection.  Reflection runs in the
\* reflect step only, before any agent node of the turn has acted and on
\* the state of the previous exchange, the message of this turn not yet
\* recorded; no step after it, the planner step included, changes what
\* reflection writes; the agents act after the reflect step, after
\* reflection whenever there was a previous response, and the fallback
\* outputs of Ask and Chitchat are computed from the state reflection left
C29_Step ==
    \A s \in Sessions :
        /\ (ReflectionRunsNow(s) \/ ReflectionFields(convs'[s]) # ReflectionFields(convs[s])) =>
              /\ turn[s].pc = "reflect"
              /\ turn[s].done = {}
              /\ ~turn[s].planner_ran
              /\ Truthy(convs[s].last_system_response)
              /\ convs'[s].turn_id = convs[s].turn_id
              /\ convs'[s].dialogue_history = convs[s].dialogue_history
              /\ convs'[s].last_user_message = convs[s].last_user_message
        /\ AgentActsNow(s) =>
              /\ turn[s].pc = "fanout"
              /\ Truthy(convs[s].last_system_response) => calls[s].info
              /\ convs'[s] = convs[s]
        /\ "ask" \in turn'[s].done \ turn[s].done =>
              turn'[s].ask_output \in
                 {AskRun(convs[s], llm_output) :
                     llm_output \in StructuredResults(AskLLMOutputs) \ {Raised}}
        /\ "chitchat" \in turn'[s].done \ turn[s].done =>
              turn'[s].chitchat_output \in
                 {ChitchatRun(convs[s], llm_output) :
                     llm_output \in StructuredResults(ChitchatLLMOutputs) \ {Raised}}

C29_ReflectPlacement == [][C29_Step]_vars

\* reflection stored a category in this turn and Ask, falling back, no
\* longer asks for it
C29_Witness ==
    \E s \in Sessions :
        /\ turn[s].pc = "fanout"
        /\ calls[s].info
        /\ "category" \notin DOMAIN pre[s].user_profile
        /\ "category" \in DOMAIN convs[s].user_profile
        /\ "ask" \in turn[s].done
        /\ turn[s].ask_output.candidates[1].candidate_id = "ask_budget"

----------------------------------------------------------------------------
(* Claims about the trajectory of strategy reflection *)

\* the last reflect call made its strategy call
StrategyCalled ==
    /\ unit.pc = "reflect"
    /\ unit.called
    /\ unit.info # Raised /\ unit.detect # Raised
    /\ should_strategy_reflect(unit.before, unit.detect)

\* the number of the turn whose exchange is stored at index i:
\* dialogue_history holds the exchanges of the last turns, one per turn
TurnOfExchange(state, i) == state.turn_id - Len(state.dialogue_history) + i

\* the stored exchanges of the turns after the last recorded failure turn,
\* all stored exchanges when no failure was recorded
ExchangesSinceFailure(state) ==
    LET failure == IF state.last_recommendation_failure_turn = None THEN 0
                   ELSE state.last_recommendation_failure_turn[1]
        kept == {i \in 1..Len(state.dialogue_history) :
                    TurnOfExchange(state, i) > failure}
        first == IF kept = {} THEN Len(state.dialogue_history) + 1 ELSE Min(kept)
        history == SubSeq(state.dialogue_history, first, Len(state.dialogue_history))
    IN  [ i \in 1..Len(history) |->
            [ user |-> history[i].user, system |-> history[i].system,
              act |-> history[i].act ] ]

\* C30: the trajectory handed to strategy reflection is exactly the stored
\* exchanges of the turns since the last recorded failure turn, all stored
\* exchanges when there is none, also in sessions longer than the cap of
\* dialogue_history
C30_TrajectorySinceFailure ==
    StrategyCalled => unit.trajectory = ExchangesSinceFailure(unit.before)

----------------------------------------------------------------------------
(* The synthesized Recommend candidate *)

\* generation was not made (no products), failed, or returned no candidate
NoGeneratedCandidate ==
    \/ TurnRows = <<>>
    \/ unit.llm_output = NoneResult
    \/ /\ unit.llm_output.kind = "value"
       /\ unit.llm_output.value.candidates = <<>>

\* score is the largest score among the products, 0 when there is none
IsTopScore(score, products) ==
    IF products = <<>> THEN score = 0
    ELSE /\ \E i \in 1..Len(products) : products[i].score = score
         /\ \A i \in 1..Len(products) : products[i].score <= score

\* min(1.0, 0.3 + 0.1 * n), in hundredths
SynthesizedConfidence(n) == IF 30 + 10 * n <= 100 THEN 30 + 10 * n ELSE 100

\* C31: when the search returned and generation failed, returned no
\* candidate, or there was no product, the Recommend output has exactly one
\* candidate, rec_primary, carrying all the products of the turn, scored
\* with the largest product score (0 without products), and the confidence
\* of the output is min(1.0, 0.3 + 0.1 * number of products).
C31_SynthesizedCandidate ==
    (Returned("recommend") /\ NoGeneratedCandidate) =>
        /\ Len(unit.output.candidates) = 1
        /\ unit.output.candidates[1].candidate_id = "rec_primary"
        /\ SameProducts(unit.output.candidates[1].products, TurnRows)
        /\ IsTopScore(unit.output.candidates[1].score,
                      unit.output.candidates[1].products)
        /\ unit.output.confidence = SynthesizedConfidence(Len(TurnRows))
        /\ unit.output.act = "recommend"

\* C31 witness: eight rows came back and the generation returned an empty
\* candidate list; the one candidate carries the eight products with the
\* score of the third, and the confidence is capped at 1.0.
C31_Witness ==
    /\ Returned("recommend")
    /\ unit.retrieved = ManyRows
    /\ unit.llm_output.kind = "value"
    /\ unit.llm_output.value.candidates = <<>>
    /\ Len(unit.output.candidates) = 1
    /\ Len(unit.output.candidates[1].products) = 8
    /\ unit.output.candidates[1].score = 90
    /\ unit.output.confidence = 100

----------------------------------------------------------------------------
(* The planner's decision and the model's answer *)

\* C32: when the preferences are not sufficient, or no Recommend candidate
\* carries a product, every decision of Planner.select is exactly the
\* candidate the model chose by id, the first one with that id in output
\* order; the override changes nothing.
C32_ModelChoiceKept ==
    (Decided /\ (~SufficientProfile(pl.profile)
                 \/ FirstRecommendWithProduct(pl.outputs) = {}))
    => /\ ModelChoice(pl.outputs, pl.llm_output.value.selected_candidate_id) # {}
       /\ \A chosen \in ModelChoice(pl.outputs,
                                    pl.llm_output.value.selected_candidate_id) :
             DecisionIs(pl.result.decision, pl.outputs, chosen)

\* C32 witness: preferences that are not sufficient, a Recommend candidate
\* with a product on offer, and a decision for the Ask candidate the model
\* chose, whose id a second offered candidate shares.
C32_Witness ==
    /\ Decided
    /\ ~SufficientProfile(pl.profile)
    /\ FirstRecommendWithProduct(pl.outputs) # {}
    /\ pl.result.decision.selected_act = "ask"
    /\ pl.result.decision.selected_candidate_id =
           pl.llm_output.value.selected_candidate_id
    /\ \E at \in Offered(pl.outputs), other \in Offered(pl.outputs) :
          /\ at # other
          /\ CandAt(pl.outputs, at).candidate_id =
                 pl.result.decision.selected_candidate_id
          /\ CandAt(pl.outputs, other).candidate_id =
                 pl.result.decision.selected_candidate_id

\* the position of the selected candidate: the model's choice, replaced by
\* the first Recommend candidate with a product when the preferences are
\* sufficient and the model's choice is not a Recommend candidate
SelectedPosition ==
    LET chosen == ModelChoice(pl.outputs, pl.llm_output.value.selected_candidate_id)
    IN  IF /\ SufficientProfile(pl.profile)
           /\ FirstRecommendWithProduct(pl.outputs) # {}
           /\ \A at \in chosen : pl.outputs[at[1]].act # "recommend"
        THEN FirstRecommendWithProduct(pl.outputs)
        ELSE chosen

\* C33: the selected_act of every decision is the act of the output that
\* holds the selected candidate, whatever act the model's answer named, and
\* that act is the one appended to act_history (and stored with the
\* exchange in dialogue_history).
C33_ActOfOwner ==
    Decided =>
        /\ SelectedPosition # {}
        /\ \A at \in SelectedPosition :
              /\ pl.result.decision.selected_candidate_id =
                     CandAt(pl.outputs, at).candidate_id
              /\ pl.result.decision.selected_act = pl.outputs[at[1]].act
              /\ pl.after.act_history = <<pl.outputs[at[1]].act>>
              /\ pl.after.dialogue_history[1].act = pl.outputs[at[1]].act

\* C33 witness: the model named the act "ask" with the id of a candidate of
\* a Chitchat output; the decision and the act history say "chitchat".
C33_Witness ==
    /\ Decided
    /\ pl.llm_output.value.selected_act = "ask"
    /\ \A o \in 1..Len(pl.outputs) : pl.outputs[o].act # "ask"
    /\ pl.result.decision.selected_act = "chitchat"
    /\ pl.after.act_history = <<"chitchat">>

----------------------------------------------------------------------------
(* Invariants of a session between turns *)

\* no turn of the session is in progress
BetweenTurns(s) == turn[s].pc = "idle"

\* C34: between the turns of a session changed only by turns, completed or
\* aborted, act_history and dialogue_history both hold min(turn_id, 50)
\* entries, and the act stored with the i-th exchange is the i-th act.
C34_HistoriesAligned ==
    \A s \in Sessions :
        BetweenTurns(s) =>
            /\ Len(convs[s].act_history) = MinOf(convs[s].turn_id, 50)
            /\ Len(convs[s].dialogue_history) = MinOf(convs[s].turn_id, 50)
            /\ \A i \in 1..Len(convs[s].dialogue_history) :
                  /\ "act" \in DOMAIN convs[s].dialogue_history[i]
                  /\ convs[s].dialogue_history[i].act = convs[s].act_history[i]

\* C34 witness: a session whose 51st turn completed, the oldest entry of
\* both histories dropped.
C34_Witness ==
    /\ BetweenTurns("s1")
    /\ outcome["s1"] = "completed"
    /\ convs["s1"].turn_id = 51
    /\ Len(full_acts["s1"]) = 51
    /\ Len(convs["s1"].act_history) = 50
    /\ Len(convs["s1"].dialogue_history) = 50

\* a marker that is set stays set and does not go down in this step
KeepsOrGrows(before, after) ==
    before # None => (after # None /\ after[1] >= before[1])

C35_Ordered ==
    \A s \in Sessions :
        convs[s].last_recommendation_failure_turn # None =>
            /\ convs[s].last_recommendation_turn # None
            /\ convs[s].last_recommendation_failure_turn[1] <=
                   convs[s].last_recommendation_turn[1]
            /\ convs[s].last_recommendation_turn[1] <= convs[s].turn_id

C35_Step ==
    \A s \in Sessions :
        /\ KeepsOrGrows(convs[s].last_recommendation_failure_turn,
                        convs'[s].last_recommendation_failure_turn)
        /\ KeepsOrGrows(convs[s].last_recommendation_turn,
                        convs'[s].last_recommendation_turn)

\* C35: in every state of a session started fresh, a set
\* last_recommendation_failure_turn comes with a set last_recommendation_turn
\* and failure turn <= recommendation turn <= turn_id; no step lowers or
\* clears either marker once it is set.
C35_MarkersOrdered ==
    /\ []C35_Ordered
    /\ [][C35_Step]_vars

\* C35 witness: the recommendation of turn 1 was marked as failed during
\* turn 2, and turn 2 ended with another recommendation.
C35_Witness ==
    /\ convs["s1"].last_recommendation_failure_turn = Some(1)
    /\ convs["s1"].last_recommendation_turn = Some(2)
    /\ convs["s1"].turn_id = 2

\* the last completed turn of the session was a recommendation
EndsInRecommend(state) ==
    /\ state.act_history # <<>>
    /\ state.act_history[Len(state.act_history)] = "recommend"

\* C36: between the turns of a session started fresh,
\* last_recommendation_turn equals turn_id exactly when act_history is not
\* empty and its last entry is "recommend".
C36_RecommendationTurnCurrent ==
    \A s \in Sessions :
        BetweenTurns(s) =>
            (convs[s].last_recommendation_turn = Some(convs[s].turn_id)
                <=> EndsInRecommend(convs[s]))

\* C36 witness: after an ask and then a recommendation, between turns, the
\* marker equals the turn_id 2.
C36_Witness ==
    /\ BetweenTurns("s1")
    /\ convs["s1"].act_history = <<"ask", "recommend">>
    /\ convs["s1"].turn_id = 2
    /\ convs["s1"].last_recommendation_turn = Some(2)

----------------------------------------------------------------------------
(* Reflection on the first turn and after an empty response *)

\* the state the turn came in with has no last_system_response, or an
\* empty one
NothingToReflectOn(s) ==
    \/ pre[s].last_system_response = None
    \/ pre[s].last_system_response = Some(<<>>)

\* the fields reflection may write
ReflectedFields ==
    {"user_profile", "browsing_history", "agent_suggestions",
     "corrective_experiences", "last_recommendation_failure_turn"}

\* C37: in a turn that came in without a last_system_response, or with an
\* empty one (the first turn of a session among them), reflect is not
\* invoked and user_profile, browsing_history, agent_suggestions,
\* corrective_experiences and last_recommendation_failure_turn keep the
\* values they came in with, to the end of the turn; in every other turn
\* reflect is invoked exactly once, in the reflect step.
C37_ReflectOnlyAfterResponse ==
    \A s \in Sessions :
        outcome[s] # "none" =>
            IF NothingToReflectOn(s)
            THEN /\ calls[s].reflects = 0
                 /\ \A f \in ReflectedFields : convs[s][f] = pre[s][f]
            ELSE calls[s].reflects = (IF turn[s].pc = "reflect" THEN 0 ELSE 1)

\* C37 witness: the previous turn ended with an empty response; the turn
\* after it has completed without reflect having been invoked.
C37_Witness ==
    /\ pre["s1"].last_system_response = Some(<<>>)
    /\ pre["s1"].turn_id = 1
    /\ outcome["s1"] = "completed"
    /\ convs["s1"].turn_id = 2
    /\ calls["s1"].reflects = 0

----------------------------------------------------------------------------
(* The fan-out of one turn, run twice on the same inputs: the state left   *)
(* by the reflect node, the message, and the answer every service call of  *)
(* the turn gets are drawn once; each run takes the three agent nodes in   *)
(* an order of its own and then the planner node.                          *)

Runs == {1, 2}

FanProfiles == {EmptyDict, [category |-> "knives", brand |-> "Global"]}

FanAskAnswers ==
    {NoneResult} \cup {Value(v) : v \in {o \in AskLLMOutputs : o.candidates # <<>>}}

FanRecommendAnswers ==
    {NoneResult} \cup
    {Value(v) : v \in {o \in RecommendLLMOutputs : o.candidates # <<>>}}

FanChitchatAnswers == StructuredResults(ChitchatLLMOutputs)

FanPlannerAnswers ==
    {NoneResult} \cup
    {Value(PlannerLLMOutput("ask", id)) : id \in {"c1", "rec_primary"}}

\* the GraphState of a run: order is the order the agent nodes returned in,
\* received the list handed to Planner.select
FanRun ==
    [ order |-> <<>>, failed |-> "",
      ask_output |-> NoOutput, recommend_output |-> NoOutput,
      chitchat_output |-> NoOutput,
      planner_ran |-> FALSE, received |-> <<>>,
      result |-> PlannerError(""), final_state |-> FreshState("s1") ]

InitFanout ==
    /\ convs = [s \in Sessions |-> FreshState(s)]
    /\ active = {}
    /\ budget = 0
    /\ pl = PlannerIdle
    /\ use_llm = TRUE
    /\ InitCommon
    /\ \E profile \in FanProfiles :
       \E ask_llm \in FanAskAnswers :
       \E retrieved \in RetrievalResults :
       \E recommend_llm \in FanRecommendAnswers :
       \E chitchat_llm \in FanChitchatAnswers :
       \E planner_llm \in FanPlannerAnswers :
          unit = [ pc |-> "fanout",
                   state |-> [FreshState("s1") EXCEPT !.user_profile = profile],
                   user_message |-> "show me knives",
                   ask_llm |-> ask_llm, retrieved |-> retrieved,
                   recommend_llm |-> recommend_llm,
                   chitchat_llm |-> chitchat_llm, planner_llm |-> planner_llm,
                   runs |-> [r \in Runs |-> FanRun] ]

\* the agent node of this run has not run yet and no node of it has raised
FanPending(r, agent) ==
    /\ unit.pc = "fanout"
    /\ unit.runs[r].failed = ""
    /\ agent \notin SeqToSet(unit.runs[r].order)

FanReturn(r, agent, key, output) ==
    unit' = [unit EXCEPT !.runs[r] =
                [@ EXCEPT ![key] = output, !.order = Append(@, agent)]]

FanRaise(r, node) ==
    unit' = [unit EXCEPT !.runs[r].failed = node]

\* _ask_agent, lines 90-99
FanAsk(r) ==
    /\ FanPending(r, "ask")
    /\ IF unit.ask_llm = Raised THEN FanRaise(r, "ask")
       ELSE FanReturn(r, "ask", "ask_output", AskRun(unit.state, unit.ask_llm))
    /\ UNCHANGED_pipeline

\* _recommend_agent, lines 101-110
FanRecommend(r) ==
    /\ FanPending(r, "recommend")
    /\ LET results == EffectiveResults(unit.retrieved, <<>>, unit.user_message)
       IN  IF results # <<>> /\ unit.recommend_llm = Raised
           THEN FanRaise(r, "recommend")
           ELSE FanReturn(r, "recommend", "recommend_output",
                          RecommendRun(results, unit.recommend_llm))
    /\ UNCHANGED_pipeline

\* _chitchat_agent, lines 112-121
FanChitchat(r) ==
    /\ FanPending(r, "chitchat")
    /\ IF unit.chitchat_llm = Raised THEN FanRaise(r, "chitchat")
       ELSE FanReturn(r, "chitchat", "chitchat_output",
                      ChitchatRun(unit.state, unit.chitchat_llm))
    /\ UNCHANGED_pipeline

\* mutant: the outputs are listed in the order the agent nodes returned in
FanPlannerOutputsAsReturned(g) ==
    [i \in 1..3 |->
        CASE g.order[i] = "ask" -> g.ask_output
          [] g.order[i] = "recommend" -> g.recommend_output
          [] OTHER -> g.chitchat_output]

\* _planner, lines 127-131
FanPlannerOutputs(g) == <<g.ask_output, g.recommend_output, g.chitchat_output>>

\* _planner, lines 123-147, with _finalize_state
FanPlanner(r) ==
    /\ unit.pc = "fanout"
    /\ unit.runs[r].failed = ""
    /\ SeqToSet(unit.runs[r].order) = Acts
    /\ ~unit.runs[r].planner_ran
    /\ LET outputs == FanPlannerOutputs(unit.runs[r])
           result == PlannerSelect(outputs, unit.state.user_profile,
                                   unit.planner_llm)
       IN  unit' = [unit EXCEPT !.runs[r] =
                [@ EXCEPT !.planner_ran = TRUE,
                          !.received = outputs,
                          !.result = result,
                          !.failed = IF result.kind = "raise" THEN "planner" ELSE "",
                          !.final_state =
                              IF result.kind = "ok"
                              THEN finalize_state(unit.state, result.decision,
                                                  unit.user_message)
                              ELSE unit.state]]
    /\ UNCHANGED_pipeline

NextFanout ==
    \E r \in Runs :
        \/ FanAsk(r)
        \/ FanRecommend(r)
        \/ FanChitchat(r)
        \/ FanPlanner(r)

SpecFanout == InitFanout /\ [][NextFanout]_vars

\* the run ended with a decision
FanDecided(r) == unit.runs[r].planner_ran /\ unit.runs[r].result.kind = "ok"

\* C38: Planner.select receives the outputs in the order ask, recommend,
\* chitchat whatever order the agent nodes returned in, and two runs of a
\* turn on the same state, message and service answers end with the same
\* decision and the same final ConversationState, whatever their orders.
C38_OrderIndependent ==
    /\ \A r \in Runs :
          unit.runs[r].planner_ran =>
              /\ Len(unit.runs[r].received) = 3
              /\ unit.runs[r].received[1].act = "ask"
              /\ unit.runs[r].received[2].act = "recommend"
              /\ unit.runs[r].received[3].act = "chitchat"
    /\ \A r \in Runs, q \in Runs :
          (unit.runs[r].planner_ran /\ unit.runs[q].planner_ran) =>
              /\ unit.runs[r].received = unit.runs[q].received
              /\ unit.runs[r].result = unit.runs[q].result
              /\ unit.runs[r].final_state = unit.runs[q].final_state

\* C38 witness: one run took the agents in the order ask, recommend,
\* chitchat and the other in the reverse order; Ask and Chitchat both offer
\* a candidate "c1", and both runs decided for the one of Ask.
C38_Witness ==
    /\ FanDecided(1) /\ FanDecided(2)
    /\ unit.runs[1].order = <<"ask", "recommend", "chitchat">>
    /\ unit.runs[2].order = <<"chitchat", "recommend", "ask">>
    /\ unit.runs[1].ask_output.candidates[1].candidate_id = "c1"
    /\ unit.runs[1].chitchat_output.candidates[1].candidate_id = "c1"
    /\ unit.runs[2].result.decision.selected_candidate_id = "c1"
    /\ unit.runs[2].result.decision.selected_act = "ask"
    /\ unit.runs[2].final_state.act_history = <<"ask">>

----------------------------------------------------------------------------
(* Termination of a turn.  graph.invoke runs every node the graph has      *)
(* scheduled: a turn that has begun takes its next step as long as every   *)
(* external call returns or fails.                                         *)

\* the steps of a turn in progress
TurnStep(s) ==
    \/ ReflectSkip(s)
    \/ ReflectOk(s)
    \/ ReflectRaise(s)
    \/ AskStep(s)
    \/ RecommendStep(s)
    \/ ChitchatStep(s)
    \/ PlannerStep(s)

MaxLiveTurns == 1

\* a fresh session, or one that has completed three turns
LiveStartStates == {FreshState("s1")} \cup {AfterThreeTurns(last) : last \in Acts}

InitLive ==
    /\ \E state \in LiveStartStates :
          convs = [s \in Sessions |-> IF s = "s1" THEN state ELSE FreshState(s)]
    /\ active = {"s1"}
    /\ budget = MaxLiveTurns
    /\ pl = PlannerIdle
    /\ unit = UnitIdle
    /\ use_llm \in BOOLEAN
    /\ InitCommon

SpecLive ==
    InitLive /\ [][Next]_vars /\ \A s \in Sessions : WF_vars(TurnStep(s))

\* the reflect node ends in this step
ReflectNodeRunsNow(s) == turn[s].pc = "reflect" /\ turn'[s].pc # "reflect"

\* this agent node returns or raises in this step
AgentNodeRunsNow(s, agent) ==
    \/ agent \in turn'[s].done \ turn[s].done
    \/ turn'[s].failed = agent /\ turn[s].failed = ""

\* the planner node runs in this step
PlannerNodeRunsNow(s) == turn'[s].planner_ran /\ ~turn[s].planner_ran

\* within a turn no node runs a second time: the reflect node runs before
\* every other node, an agent node runs only while it has not returned, the
\* planner node only once all three have, and only the planner node
\* increments turn_id, by one
C39_Step ==
    \A s \in Sessions :
        /\ ReflectNodeRunsNow(s) =>
              /\ outcome[s] = "running"
              /\ turn[s].done = {} /\ ~turn[s].planner_ran
              /\ calls[s].reflects = 0
        /\ turn'[s].pc = "reflect" => turn[s].pc \in {"idle", "reflect"}
        /\ \A agent \in Acts :
              AgentNodeRunsNow(s, agent) =>
                  /\ outcome[s] = "running"
                  /\ agent \notin turn[s].done
                  /\ ~turn[s].planner_ran
        /\ PlannerNodeRunsNow(s) =>
              /\ outcome[s] = "running"
              /\ outcome'[s] \in {"completed", "aborted"}
        /\ convs'[s].turn_id # convs[s].turn_id =>
              /\ PlannerNodeRunsNow(s)
              /\ outcome'[s] = "completed"
              /\ convs'[s].turn_id = pre[s].turn_id + 1
        /\ outcome[s] \in {"completed", "aborted"} =>
              \/ outcome'[s] = outcome[s] /\ convs'[s] = convs[s]
              \/ outcome'[s] = "running" /\ turn[s].pc = "idle"

\* a turn that ended as completed ran the planner once and moved turn_id
\* by one; a turn that ended as aborted left turn_id alone
C39_Ended ==
    \A s \in Sessions :
        /\ outcome[s] = "completed" =>
              /\ turn[s].planner_ran
              /\ convs[s].turn_id = pre[s].turn_id + 1
        /\ outcome[s] = "aborted" => convs[s].turn_id = pre[s].turn_id
        /\ calls[s].reflects <= 1

\* C39: provided every external call returns or fails, every turn that has
\* begun ends, completed (the planner and finalize ran, once) or aborted;
\* within a turn each of reflect, ask, recommend, chitchat and
\* planner/finalize runs at most once, so turn_id goes up at most once.
C39_TurnEnds ==
    /\ \A s \in Sessions :
          (outcome[s] = "running") ~> (outcome[s] \in {"completed", "aborted"})
    /\ [][C39_Step]_vars
    /\ []C39_Ended

\* C39 witness: the fourth turn of a session completed after reflection and
\* all three agent nodes had run.
C39_Witness ==
    /\ outcome["s1"] = "completed"
    /\ turn["s1"].pc = "idle"
    /\ turn["s1"].planner_ran
    /\ turn["s1"].planner_saw = Acts
    /\ calls["s1"].reflects = 1
    /\ pre["s1"].turn_id = 3
    /\ convs["s1"].turn_id = 4

----------------------------------------------------------------------------
(* Orchestrator.stream_turn and the --stream-graph branch of smoke.py: the *)
(* graph run of one turn as the stream of its node updates, read by the    *)
(* loop of the script.                                                     *)

\* _build_graph, lines 46-51: the names the nodes are registered under
AgentNodes == {"ask_agent", "recommend_agent", "chitchat_agent"}

GraphNodes == {"start", "reflect", "planner"} \cup AgentNodes

\* the keys of the update each node returns
UpdateKeys(node) ==
    CASE node = "start" -> {}
      [] node = "reflect" -> {"conversation_state"}
      [] node = "ask_agent" -> {"ask_output"}
      [] node = "recommend_agent" -> {"recommend_output"}
      [] node = "chitchat_agent" -> {"chitchat_output"}
      [] OTHER -> {"planner_decision", "final_state", "conversation_state"}

\* the nodes whose edges lead to this node
Predecessors(node) ==
    CASE node = "start" -> {}
      [] node = "reflect" -> {"start"}
      [] node \in AgentNodes -> {"reflect"}
      [] OTHER -> AgentNodes

\* the payload of the planner's update
PlannerPayload(decision) ==
    [ planner_decision |-> decision,
      final_state |-> finalize_state(FreshState("s1"), decision, "show me knives") ]

\* stream_turn, line 88: the key of a node's update is the node's name
StreamedName(node) == node

\* The run of the script.  fails is the node that raises ("" when none
\* does), decision what Planner.select returns, empty_as_none whether the
\* graph library hands the update of a node that wrote nothing as None
\* rather than as an empty mapping; ran are the nodes that have run, updates
\* the entries the loop has read, final_state the variable of the script,
\* ending how the script ended.
InitStream ==
    /\ convs = [s \in Sessions |-> FreshState(s)]
    /\ active = {}
    /\ budget = 0
    /\ pl = PlannerIdle
    /\ use_llm = TRUE
    /\ InitCommon
    /\ \E fails \in {""} \cup (GraphNodes \ {"start"}) :
       \E act \in Acts :
       \E empty_as_none \in BOOLEAN :
          unit = [ pc |-> "streaming", fails |-> fails,
                   decision |-> CapDecision(act),
                   empty_as_none |-> empty_as_none,
                   ran |-> {}, updates |-> <<>>,
                   final_state |-> None, ending |-> "", printed |-> NoDecision ]

\* smoke.py, lines 34-37: the body of the loop for one entry of an update
ReadUpdate(node, name, payload) ==
    IF UpdateKeys(node) = {} /\ unit.empty_as_none
    THEN unit' = [unit EXCEPT !.pc = "ended", !.ran = @ \cup {node},
                              !.ending = "AttributeError"]
    ELSE unit' = [unit EXCEPT
                     !.ran = @ \cup {node},
                     !.updates = Append(@, [node |-> name, keys |-> UpdateKeys(node)]),
                     !.final_state = IF name = "reflection" THEN Some(payload) ELSE @]

\* one node of the graph runs and its update reaches the loop of the script
StreamNode(node) ==
    /\ unit.pc = "streaming"
    /\ node \notin unit.ran
    /\ Predecessors(node) \subseteq unit.ran
    /\ IF unit.fails = node
       THEN unit' = [unit EXCEPT !.pc = "ended", !.ending = "node raised"]
       ELSE ReadUpdate(node, StreamedName(node),
                       IF node = "planner" THEN PlannerPayload(unit.decision)
                       ELSE [k \in UpdateKeys(node) |-> ""])
    /\ UNCHANGED_pipeline

\* smoke.py, lines 38-46: the stream is exhausted
StreamEnd ==
    /\ unit.pc = "streaming"
    /\ "planner" \in unit.ran
    /\ IF unit.final_state = None
       THEN unit' = [unit EXCEPT !.pc = "ended",
                        !.ending = "No final state received from stream"]
       ELSE unit' = [unit EXCEPT !.pc = "ended", !.ending = "printed",
                        !.printed = unit.final_state[1].planner_decision]
    /\ UNCHANGED_pipeline

NextStream == (\E node \in GraphNodes : StreamNode(node)) \/ StreamEnd

SpecStream == InitStream /\ [][NextStream]_vars

\* the turn succeeded: the planner node ran and no node raised
TurnSucceeded == "planner" \in unit.ran /\ unit.ending # "node raised"

\* the entries read so far are one per node that ran, under its name
OneUpdatePerNode ==
    /\ \A node \in unit.ran :
          Cardinality({i \in 1..Len(unit.updates) : unit.updates[i].node = node}) = 1
    /\ \A i \in 1..Len(unit.updates) : unit.updates[i].node \in unit.ran

\* the planner's entry carries planner_decision and final_state
PlannerUpdateCarriesDecision ==
    \A i \in 1..Len(unit.updates) :
        unit.updates[i].node = "planner" =>
            {"planner_decision", "final_state"} \subseteq unit.updates[i].keys

\* C40: the stream of a turn has one update per node that ran, the
\* planner's update carrying planner_decision and final_state, and the
\* --stream-graph mode of the smoke script ends every turn that succeeded
\* by printing the decision of that turn, not with "No final state received
\* from stream".
C40_StreamYieldsDecision ==
    /\ (unit.pc = "streaming" \/ unit.ending \in {"printed",
            "No final state received from stream"}) =>
          (OneUpdatePerNode /\ PlannerUpdateCarriesDecision)
    /\ (unit.pc = "ended" /\ TurnSucceeded) =>
          /\ unit.ending = "printed"
          /\ unit.printed = unit.decision

====
